---- MODULE Spec2Model ----
(***************************************************************************)
(* Model of stm32-uart-prog: the session orchestrator (main), the          *)
(* per-target pipeline (program_hex) and the bootloader protocol engine    *)
(* (STM32BL) over the serial link.                                         *)
(*                                                                         *)
(* Scaling.  The flash geometry, the chunk size and the baud rates are     *)
(* scaled down so that the state space is finite and small: a chunk is     *)
(* CHUNK = 2 bytes instead of 256, the flash has three sectors starting    *)
(* at address 4, and baud rates are small integers whose neighbours        *)
(* (baud - 1, baud + 1) stand for the int(base * (1 + i * step))           *)
(* candidates of the sweeps.  Byte values are the real ones.               *)
(*                                                                         *)
(* The target's answers (ACK, NACK, silence, payload bytes) and the        *)
(* operator's answers are inputs of the actions, drawn with \E.            *)
(***************************************************************************)
EXTENDS Integers, Sequences, FiniteSets, TLC

\* ------------------------------------------------------------------ bounds
MaxAttemptsErase == 2
MaxAttemptsCmd == 2
MaxTargets == 2
TuneRequests == 2

\* ------------------------------------------------- constants of STM32BL
ACTIVATE == 127
ACK == 121
NACK == 31
BLANK == 255
CHUNK == 2
CMD_ATTEMPTS == 3
ACTIVATE_ATTEMPTS == 5
RETRY_ATTEMPTS == 2
FRAME_REPEAT == 5
NOMINAL_BAUD == 10
SYNC_REPEAT == 2
SYNC_STEPS == 1
TUNE_REPEAT == 2
TUNE_STEPS == 1
MAX_DEV_ID == 65535
PID_STM32F40X == 1043
SUPPORTED_DEVICE_ID == {PID_STM32F40X}
BAUDRATES == {NOMINAL_BAUD}
FLASH_SECTORS == << <<4, 4>>, <<8, 2>>, <<10, 2>> >>
DEFAULT_ADDRESS == 4

CMD_GET == 0
CMD_GET_ID == 2
CMD_READ_MEMORY == 17
CMD_GO == 33
CMD_WRITE_MEMORY == 49
CMD_EXTENDED_ERASE == 68
COMMAND_SET ==
  {CMD_GET, CMD_GET_ID, CMD_READ_MEMORY, CMD_GO, CMD_WRITE_MEMORY, CMD_EXTENDED_ERASE}

\* An empty read (no byte), and Python's None.
NoByte == -1
None == -2

\* ----------------------------------------------------------------- helpers
Min(a, b) == IF a < b THEN a ELSE b
Max(a, b) == IF a > b THEN a ELSE b

SetMin(S) == CHOOSE x \in S : \A y \in S : x <= y
SetMax(S) == CHOOSE x \in S : \A y \in S : x >= y

RECURSIVE sorted(_)
sorted(S) == IF S = {} THEN <<>> ELSE <<SetMin(S)>> \o sorted(S \ {SetMin(S)})

Range(s) == {s[k] : k \in DOMAIN s}

\* Python's s[a:b] on a sequence, negative indices counted from the end.
PySlice(s, a, b) ==
  LET n == Len(s)
      lo == IF a < 0 THEN Max(a + n, 0) ELSE Min(a, n)
      hi == IF b < 0 THEN Max(b + n, 0) ELSE Min(b, n)
  IN IF lo < hi THEN SubSeq(s, lo + 1, hi) ELSE <<>>

\* Mutant: no chunk is skipped as blank.
all_blank_never(chunk) == FALSE

\* all(b == 0xFF for b in chunk): true of the empty chunk.
all_blank(chunk) == \A k \in DOMAIN chunk : chunk[k] = BLANK

\* --------------------------------------------------------- firmware image
\* IntelHex: a map from the addresses the file holds to their bytes.
Img(addrs, blank) == [a \in addrs |-> IF a \in blank THEN BLANK ELSE a]

\* IntelHex.tobinarray with padding 0xFF: the bytes of min..max, gaps padded.
tobinarray(ih) ==
  IF DOMAIN ih = {} THEN <<>>
  ELSE LET lo == SetMin(DOMAIN ih)
           hi == SetMax(DOMAIN ih)
       IN [k \in 1..(hi - lo + 1) |->
             IF (lo + k - 1) \in DOMAIN ih THEN ih[lo + k - 1] ELSE BLANK]

sector_for_address(addr) ==
  LET hits == {i \in 1..Len(FLASH_SECTORS) :
                 /\ FLASH_SECTORS[i][1] <= addr
                 /\ addr < FLASH_SECTORS[i][1] + FLASH_SECTORS[i][2]}
  IN IF hits = {} THEN None ELSE SetMin(hits) - 1

used_sectors_of(ih) ==
  sorted({sector_for_address(a) : a \in DOMAIN ih} \ {None})

FlashEnd ==
  FLASH_SECTORS[Len(FLASH_SECTORS)][1] + FLASH_SECTORS[Len(FLASH_SECTORS)][2] - 1

\* STM32BL.__init__: "ok" or the exception it raises.
bl_init_result(ih) ==
  IF Len(tobinarray(ih)) = 0 THEN "ValueError"
  ELSE IF DOMAIN ih = {} THEN "ValueError"
  ELSE IF used_sectors_of(ih) = <<>> THEN "ValueError"
  ELSE IF SetMax(DOMAIN ih) > FlashEnd THEN "RuntimeError"
  ELSE "ok"

\* ------------------------------------------------------------------ inputs
\* parse_targets returns the ids sorted and without duplicates.
TargetLists == {[k \in 1..n |-> k] : n \in 1..MaxTargets}

\* Images that pass STM32BL.__init__, used to exercise the pipeline.
ImgData == Img(4..7, {})
ImgTwoSectors == Img(4..9, {})
ImgBlank == Img(4..7, 4..7)
ImgMixed == Img(4..7, {4, 5})
ImgOffset == Img(6..9, {})
\* Images that STM32BL.__init__ rejects, and one starting below the flash.
ImgEmpty == Img({}, {})
ImgBelow == Img(2..3, {})
ImgBeyond == Img(10..13, {})
ImgLow == Img(3..5, {})
\* An image with a gap that covers a whole sector.
ImgGap == Img({4, 5, 10, 11}, {})
\* An image of one byte that starts inside the first chunk of sector 0.
ImgTail == Img({5}, {})

PipelineImages == {ImgData, ImgTwoSectors, ImgBlank, ImgMixed, ImgOffset}
ConfigImages == {ImgData, ImgEmpty, ImgBelow, ImgBeyond, ImgLow, ImgGap, ImgTail}

MkArgs(t, ae, ac, nt, th, b, h) ==
  [targets |-> t, attempts_erase |-> ae, attempts |-> ac, no_tune |-> nt,
   tune_threshold |-> th, baudrate |-> b, hexfile |-> h, address |-> DEFAULT_ADDRESS]

\* Sessions that vary the retry budgets and the image, autotune disabled.
PipelineSessions ==
  {<<MkArgs(t, ae, ac, TRUE, TuneRequests, NOMINAL_BAUD, "ok"), i>> :
     t \in TargetLists, ae \in 0..MaxAttemptsErase, ac \in 0..MaxAttemptsCmd,
     i \in PipelineImages}

\* Sessions that vary the autotune threshold (in 1/TuneRequests units).
TuneSessions ==
  {<<MkArgs(t, 1, 1, FALSE, th, NOMINAL_BAUD, "ok"), ImgData>> :
     t \in TargetLists, th \in 0..TuneRequests}

\* Sessions that vary what the configuration stage looks at.
ConfigSessions ==
  {<<MkArgs(<<1>>, 1, 1, TRUE, TuneRequests, b, h), i>> :
     b \in {NOMINAL_BAUD, NOMINAL_BAUD + 3},
     h \in {"ok", "not_hex", "missing", "corrupt"}, i \in ConfigImages}

Sessions == PipelineSessions \cup TuneSessions \cup ConfigSessions

Answers == {"yes", "no", "interrupt"}

\* Mutant: every answer counts as a consent.
proposal_to_continue_always(answer) == TRUE

\* proposal_to_continue: 1 on "yes", 0 on "no" and on KeyboardInterrupt.
proposal_to_continue(answer) == answer = "yes"

\* ------------------------------------------------------------------- state
VARIABLES
  args,         \* the parsed command line
  ih,           \* the contents of the hex file
  pc,           \* position of main
  ended,        \* how the session left the outer try ("" while running)
  exit_code,    \* exit(1) was called
  ser,          \* the SerialPort: is_open, baudrate, parity, timeout
  bl,           \* the STM32BL instance
  prog_status,  \* target id -> status
  start_time,   \* 0 until programming starts
  summary,      \* what the finally block printed
  tidx,         \* index of the current target in args.targets
  total_n,      \* total_bar.n, the progress counter
  ph,           \* locals of program_hex
  retry_i,      \* loop index of retry()
  sw,           \* locals of the baud sweep in sync and baud_tune
  hist,         \* what happened on the wire for the current target
  call          \* a single call of a function of the engine, with its result

main_vars == <<args, ih, pc, ended, exit_code, ser, bl, prog_status, start_time,
               summary, tidx, total_n, ph, retry_i, sw, hist>>

vars == <<args, ih, pc, ended, exit_code, ser, bl, prog_status, start_time,
          summary, tidx, total_n, ph, retry_i, sw, hist, call>>

NoCall == [op |-> "none"]

NoSer == [is_open |-> FALSE, baudrate |-> 0, parity |-> "E",
          timeout |-> [kind |-> "none", baud |-> 0]]

NoBl == [constructed |-> FALSE, baudrate |-> 0, initial_baudrate |-> 0,
         attempts_cmd |-> 0, failed_once |-> FALSE, used_sectors |-> <<>>,
         min_addr |-> 0, max_addr |-> 0, data |-> <<>>, start_address |-> 0]

NoPh == [sidx |-> 0, erase_attempt |-> 0, i |-> 0, attempt |-> 0,
         all_ok |-> TRUE, credited |-> 0, warn_detected |-> FALSE]

NoSw == [k |-> 0, best_baud |-> None, best_rate |-> 0, orig_baud |-> 0,
         orig_cmd_attempts |-> 0]

\* History of the current target (hist.tid), kept until the loop moves on:
\*   step          the last pipeline step that put bytes on the wire
\*   asked         the operator's answer to the continuation prompt ("" when
\*                 no prompt was shown)
\*   pid, cmds     the results of get_pid and of the capability get_commands
\*   sectors       the sectors an erase, write or read was sent for
\*   verified      the sectors completed since their last erase
\*   blank_io      a WRITE_MEMORY or READ_MEMORY was sent for an all-0xFF chunk
\*   erase_failed  an erase_sector call returned false
\*   retried       a write_mem call returned false or a read-back differed
\*   rolled        a failed sector attempt had credited chunks
\*   exhausted     the sector whose erase attempts ran out
\*   go_pairs      the number of GO opcode pairs sent
\*   go_ok         the number of start_application calls that returned true
\*   base          the chunks of the sectors completed by earlier targets
\*   probed        until the sync: what the probe saw, "active" (a response)
\*                 or "silent"
\*   frames        until the sync: the application frames sent, in order
\*   sweep         of the sweep under way, or of the last one until the step
\*                 after it:
\*                 n, the candidates measured; top, the highest rate (in
\*                 1/TuneRequests units) among the measured ones that reach
\*                 the threshold, -1 when none does; first, the baud rate of
\*                 the first candidate of that rate
\*   wrote         the chunks <<sector, i>> whose write_mem returned true since
\*                 the last erase of their sector
\*   proven        the chunks whose read-back was equal to the chunk since
\*                 their last write; both forget a sector when it is erased
\*                 and when an attempt on it fails
\*   made          the calls made: erase, of erase_sector for the sector under
\*                 way; write and read, of write_mem and read_mem for the
\*                 chunk under way in this erase attempt; go, of
\*                 start_application; write, read and go start again at 0
\*                 when their loop is left
\*   entry         attempts_cmd, the kind of the link timeout and the link
\*                 baud rate when baud_tune was entered
\*   attempt       the link events of the current erase attempt of a sector in
\*                 the order of their first occurrence, each with its sector:
\*                 "reset_input", "erase_ack" or "erase_nack", "write", "read"
NoSweep == [n |-> 0, top |-> -1, first |-> None]

\* The sweep history after the candidate baud at position k + 1 measured rate.
measured(sweep, k, baud, rate, threshold) ==
  LET before == IF k = 0 THEN NoSweep ELSE sweep
      higher == rate >= threshold /\ rate > before.top
  IN [n |-> before.n + 1,
      top |-> IF higher THEN rate ELSE before.top,
      first |-> IF higher THEN baud ELSE before.first]

NoEntry == [attempts_cmd |-> 0, timeout |-> "none", baud |-> 0]

NoneMade == [erase |-> 0, write |-> 0, read |-> 0, go |-> 0]

NoHist == [tid |-> 0, step |-> "none", asked |-> "", probed |-> "", frames |-> <<>>,
           sweep |-> NoSweep, entry |-> NoEntry, attempt |-> <<>>,
           wrote |-> {}, proven |-> {}, made |-> NoneMade,
           pid |-> None, cmds |-> <<>>,
           sectors |-> {}, verified |-> {}, blank_io |-> FALSE,
           erase_failed |-> FALSE, retried |-> FALSE, rolled |-> FALSE,
           exhausted |-> None, go_pairs |-> 0, go_ok |-> 0, base |-> 0]

Init ==
  /\ \E s \in Sessions : args = s[1] /\ ih = s[2]
  /\ pc = "baudrate_check"
  /\ ended = ""
  /\ exit_code = 0
  /\ ser = NoSer
  /\ bl = NoBl
  /\ prog_status = [t \in Range(args.targets) |-> "Undefined"]
  /\ start_time = 0
  /\ summary = <<>>
  /\ tidx = 0
  /\ total_n = 0
  /\ ph = NoPh
  /\ retry_i = 0
  /\ sw = NoSw
  /\ hist = NoHist
  /\ call = NoCall

\* An exception leaves the outer try of main: the matching except clause
\* runs, then the finally block.
Raise(kind) == pc' = "finally" /\ ended' = kind

\* -------------------------------------------------- main: configuration
\* main: baudrate check.
BaudrateCheck ==
  /\ pc = "baudrate_check"
  /\ \E answer \in Answers :
       IF args.baudrate \notin BAUDRATES /\ ~proposal_to_continue(answer)
       THEN Raise("cancelled")
       ELSE pc' = "hexfile_check" /\ ended' = ended
  /\ UNCHANGED <<call, args, ih, exit_code, ser, bl, prog_status, start_time, summary,
                 tidx, total_n, ph, retry_i, sw, hist>>

\* main: basic hexfile check.
HexfileCheck ==
  /\ pc = "hexfile_check"
  /\ IF args.hexfile \in {"not_hex", "missing"}
     THEN Raise("RuntimeError")
     ELSE pc' = "get_ports" /\ ended' = ended
  /\ UNCHANGED <<call, args, ih, exit_code, ser, bl, prog_status, start_time, summary,
                 tidx, total_n, ph, retry_i, sw, hist>>

\* main: SerialPort.get_ports, exit(1) when there is none, then the port
\* prompt and SerialPort(port, initial_baudrate, timeout=0.1).
OpenPort ==
  /\ pc = "get_ports"
  /\ \E ports \in {"none", "some"}, opened \in BOOLEAN :
       IF ports = "none"
       THEN Raise("SystemExit") /\ exit_code' = 1 /\ ser' = ser
       ELSE IF ~opened
       THEN Raise("SerialException") /\ exit_code' = exit_code /\ ser' = ser
       ELSE /\ pc' = "construct" /\ ended' = ended /\ exit_code' = exit_code
            /\ ser' = [is_open |-> TRUE, baudrate |-> args.baudrate, parity |-> "E",
                       timeout |-> [kind |-> "open", baud |-> 0]]
  /\ UNCHANGED <<call, args, ih, bl, prog_status, start_time, summary, tidx, total_n,
                 ph, retry_i, sw, hist>>

\* main: bl = STM32BL(sp, hexfile=hexfile).
Construct ==
  /\ pc = "construct"
  /\ LET r == IF args.hexfile = "corrupt" THEN "IntelHexError" ELSE bl_init_result(ih)
     IN IF r # "ok"
        THEN Raise(r) /\ bl' = bl
        ELSE /\ pc' = "address_check" /\ ended' = ended
             /\ bl' = [constructed |-> TRUE, baudrate |-> ser.baudrate,
                       initial_baudrate |-> ser.baudrate,
                       attempts_cmd |-> args.attempts, failed_once |-> FALSE,
                       used_sectors |-> used_sectors_of(ih),
                       min_addr |-> SetMin(DOMAIN ih), max_addr |-> SetMax(DOMAIN ih),
                       data |-> tobinarray(ih), start_address |-> 0]
  /\ UNCHANGED <<call, args, ih, exit_code, ser, prog_status, start_time, summary, tidx,
                 total_n, ph, retry_i, sw, hist>>

\* main: start address check, then start_time = time.time().
AddressCheck ==
  /\ pc = "address_check"
  /\ \E answer \in Answers :
       IF bl.min_addr # args.address /\ ~proposal_to_continue(answer)
       THEN Raise("cancelled") /\ UNCHANGED <<bl, start_time, tidx>>
       ELSE /\ bl' = [bl EXCEPT !.start_address = args.address]
            /\ start_time' = 1
            /\ tidx' = 1
            /\ pc' = "for_target" /\ ended' = ended
  /\ UNCHANGED <<call, args, ih, exit_code, ser, prog_status, summary, total_n, ph,
                 retry_i, sw, hist>>

\* main: the finally block prints the summary only when start_time is set.
Finally ==
  /\ pc = "finally"
  /\ pc' = "done"
  /\ summary' = IF start_time # 0 THEN <<prog_status>> ELSE <<>>
  /\ UNCHANGED <<call, args, ih, ended, exit_code, ser, bl, prog_status, start_time,
                 tidx, total_n, ph, retry_i, sw, hist>>


\* ------------------------------------------------- the protocol engine
\* What the target answers where the engine reads one byte.
Reply == {ACK, NACK, NoByte}

\* The target's answers to the successive sends of one opcode pair: the
\* first `fails` sends get `bad` (a NACK or nothing), the later ones an ACK.
cmd_replies(fails, bad) == [k \in 1..CMD_ATTEMPTS |-> IF k <= fails THEN bad ELSE ACK]

CmdReplies == {cmd_replies(fails, bad) : fails \in 0..CMD_ATTEMPTS, bad \in Reply \ {ACK}}

\* STM32BL._read_ack on the byte r read (NoByte: the read was empty).
read_ack(r) == r # NoByte /\ r = ACK

\* STM32BL.cmd: the pair (cmd, cmd ^ 0xFF) is sent until one send is
\* acknowledged, at most CMD_ATTEMPTS times.  sent counts the pairs sent.
RECURSIVE cmd_from(_, _)
cmd_from(replies, attempt) ==
  IF attempt > CMD_ATTEMPTS THEN [ok |-> FALSE, sent |-> CMD_ATTEMPTS]
  ELSE IF read_ack(replies[attempt]) THEN [ok |-> TRUE, sent |-> attempt]
  ELSE cmd_from(replies, attempt + 1)

\* Mutant: the pair is sent once, as if the bound were the attempts_cmd of
\* the tune.
cmd_once(replies) == [ok |-> read_ack(replies[1]), sent |-> 1]

cmd(replies) == cmd_from(replies, 1)

\* serial recv_data(size) when the target delivers `offered`.
recv_data(offered, size) == SubSeq(offered, 1, Min(size, Len(offered)))

\* int.from_bytes(b), big-endian.
RECURSIVE from_bytes(_)
from_bytes(b) ==
  IF Len(b) = 0 THEN 0 ELSE 256 * from_bytes(SubSeq(b, 1, Len(b) - 1)) + b[Len(b)]

\* STM32BL.get_commands under the target behaviour t.
get_commands(t) ==
  IF ~cmd(t.replies).ok THEN <<>>
  ELSE IF t.len = NoByte THEN <<>>
  ELSE LET cmds == recv_data(t.payload, t.len + 1)
       IN IF Len(cmds) # t.len + 1 THEN <<>> ELSE cmds

\* STM32BL.get_pid under the target behaviour t: None stands for str().
get_pid(t) ==
  IF ~cmd(t.replies).ok THEN None
  ELSE IF t.len = NoByte THEN None
  ELSE LET pid == recv_data(t.payload, t.len + 1)
       IN IF Len(pid) # t.len + 1 THEN None ELSE from_bytes(pid)

\* STM32BL.erase_sector, write_mem, start_application: true on the last ACK.
erase_sector(t) == cmd(t.replies).ok /\ read_ack(t.ack)

write_mem(t) == cmd(t.replies).ok /\ read_ack(t.ack_addr) /\ read_ack(t.ack_data)

start_application(t) == cmd(t.replies).ok /\ read_ack(t.ack)

\* STM32BL.read_mem: the bytes read, empty when a step fails.
read_mem(t, size) ==
  IF ~cmd(t.replies).ok THEN <<>>
  ELSE IF ~read_ack(t.ack_addr) THEN <<>>
  ELSE IF ~read_ack(t.ack_len) THEN <<>>
  ELSE recv_data(t.data, size)

\* Target behaviours: what the target answers at each read of the command.
\* The answers to reads the engine never reaches are left at ACK.
CmdOk == {r \in CmdReplies : cmd(r).ok}
CmdFail == CmdReplies \ CmdOk
Bad == Reply \ {ACK}

AckScripts ==
  {[replies |-> r, ack |-> ACK] : r \in CmdFail}
    \cup {[replies |-> r, ack |-> a] : r \in CmdOk, a \in Reply}

WriteScripts ==
  {[replies |-> r, ack_addr |-> ACK, ack_data |-> ACK] : r \in CmdFail}
    \cup {[replies |-> r, ack_addr |-> a, ack_data |-> ACK] : r \in CmdOk, a \in Bad}
    \cup {[replies |-> r, ack_addr |-> ACK, ack_data |-> a] : r \in CmdOk, a \in Reply}

Corrupted(chunk) == [k \in DOMAIN chunk |-> IF k = 1 THEN (chunk[k] + 1) % 256 ELSE chunk[k]]

\* What the target delivers in the data phase of READ_MEMORY.
ReadBacks(chunk) ==
  {chunk, Corrupted(chunk), SubSeq(chunk, 1, Len(chunk) - 1), <<>>}

ReadScripts(chunk) ==
  {[replies |-> r, ack_addr |-> ACK, ack_len |-> ACK, data |-> chunk] : r \in CmdFail}
    \cup {[replies |-> r, ack_addr |-> a, ack_len |-> ACK, data |-> chunk] :
             r \in CmdOk, a \in Bad}
    \cup {[replies |-> r, ack_addr |-> ACK, ack_len |-> a, data |-> chunk] :
             r \in CmdOk, a \in Bad}
    \cup {[replies |-> r, ack_addr |-> ACK, ack_len |-> ACK, data |-> d] :
             r \in CmdOk, d \in ReadBacks(chunk)}

\* The protocol version byte that opens the GET payload: version 3.1 is the
\* byte 0x31, the value of the WRITE_MEMORY opcode.
VERSION_31 == CMD_WRITE_MEMORY

AllAck == [k \in 1..CMD_ATTEMPTS |-> ACK]
NoAck == [k \in 1..CMD_ATTEMPTS |-> NACK]
GoodCmds == <<VERSION_31, CMD_GET, CMD_GET_ID, CMD_READ_MEMORY, CMD_GO,
              CMD_WRITE_MEMORY, CMD_EXTENDED_ERASE>>
NoGoCmds == <<VERSION_31, CMD_GET, CMD_GET_ID, CMD_READ_MEMORY,
              CMD_WRITE_MEMORY, CMD_EXTENDED_ERASE>>
NoWriteCmds == <<VERSION_31, CMD_GET, CMD_GET_ID, CMD_READ_MEMORY, CMD_GO,
                 CMD_EXTENDED_ERASE>>
GetScript(r, p, n, a) == [replies |-> r, len |-> n, payload |-> p, ack |-> a]
GetScripts ==
  {GetScript(AllAck, GoodCmds, Len(GoodCmds) - 1, ACK),
   GetScript(AllAck, GoodCmds, Len(GoodCmds) - 1, NoByte),
   GetScript(AllAck, GoodCmds, NoByte, ACK),
   GetScript(AllAck, SubSeq(GoodCmds, 1, 3), Len(GoodCmds) - 1, ACK),
   GetScript(AllAck, NoGoCmds, Len(NoGoCmds) - 1, ACK),
   GetScript(AllAck, NoWriteCmds, Len(NoWriteCmds) - 1, ACK),
   GetScript(NoAck, GoodCmds, Len(GoodCmds) - 1, ACK)}
PidScripts ==
  {GetScript(AllAck, <<4, 19>>, 1, ACK),
   GetScript(AllAck, <<4, 19>>, 1, NACK),
   GetScript(AllAck, <<4, 16>>, 1, ACK),
   GetScript(AllAck, <<4>>, 1, ACK),
   GetScript(AllAck, <<4, 19>>, NoByte, ACK),
   GetScript(NoAck, <<4, 19>>, 1, ACK)}

\* ------------------------------------------------------ main: per target
CurTarget == args.targets[tidx]

sector_chunks(sector) == FLASH_SECTORS[sector + 1][2] \div CHUNK

RECURSIVE chunks_in(_)
chunks_in(S) ==
  IF S = {} THEN 0 ELSE sector_chunks(SetMin(S)) + chunks_in(S \ {SetMin(S)})

\* The except Exception clause of the target loop, and the Fail branch after
\* program_hex: the target fails and the loop goes on.
\* Mutant: a failure is not recorded in prog_status.
TargetEndsBl_nostatus(status, b) ==
  /\ prog_status' = IF status = "Fail" THEN prog_status
                    ELSE [prog_status EXCEPT ![CurTarget] = status]
  /\ bl' = [b EXCEPT !.failed_once = b.failed_once \/ status = "Fail"]
  /\ tidx' = tidx + 1
  /\ pc' = "for_target"

\* Mutant: a failure also marks the targets handled before.
TargetEndsBl_spread(status, b) ==
  /\ prog_status' = [t \in DOMAIN prog_status |->
                       IF t = CurTarget \/ (status = "Fail" /\ prog_status[t] # "Undefined")
                       THEN status ELSE prog_status[t]]
  /\ bl' = [b EXCEPT !.failed_once = b.failed_once \/ status = "Fail"]
  /\ tidx' = tidx + 1
  /\ pc' = "for_target"

\* Mutant: a failure leaves the target loop.
TargetEndsBl_abort(status, b) ==
  /\ prog_status' = [prog_status EXCEPT ![CurTarget] = status]
  /\ bl' = [b EXCEPT !.failed_once = b.failed_once \/ status = "Fail"]
  /\ tidx' = tidx + 1
  /\ pc' = IF status = "Fail" THEN "finally" ELSE "for_target"

TargetEndsBl(status, b) ==
  /\ prog_status' = [prog_status EXCEPT ![CurTarget] = status]
  /\ bl' = [b EXCEPT !.failed_once = b.failed_once \/ status = "Fail"]
  /\ tidx' = tidx + 1
  /\ pc' = "for_target"

TargetEnds(status) == TargetEndsBl(status, bl)

\* for target_id in targets: the sleep, the continuation prompt after a
\* failure, and the end of the loop.
ForTarget ==
  /\ pc = "for_target"
  /\ IF tidx > Len(args.targets)
     THEN Raise("normal") /\ hist' = NoHist
     ELSE \E interrupt \in BOOLEAN, answer \in Answers :
            IF interrupt \/ (bl.failed_once /\ ~proposal_to_continue(answer))
            THEN Raise("cancelled") /\ hist' = NoHist
            ELSE /\ pc' = "probe" /\ ended' = ended
                 /\ hist' = [NoHist EXCEPT
                               !.tid = CurTarget,
                               !.asked = IF bl.failed_once THEN answer ELSE "",
                               !.base = hist.base + chunks_in(hist.verified)]
  /\ UNCHANGED <<call, args, ih, exit_code, ser, bl, prog_status, start_time, summary,
                 tidx, total_n, ph, retry_i, sw>>

\* Mutant: the probe reports no bootloader whatever it reads.
sync_skip_tune_deaf(first) == FALSE

\* STM32BL.sync with skip_tune: 0x7F is sent up to ACTIVATE_ATTEMPTS times
\* until something is read.  first is the send that gets a response, 0: none.
sync_skip_tune(first) == first # 0

\* main: the probe, bl.sync(total_bar, target_id, skip_tune=True).
Probe ==
  /\ pc = "probe"
  /\ \E first \in 0..ACTIVATE_ATTEMPTS :
       /\ hist' = [hist EXCEPT !.step = "probe",
                               !.probed = IF first = 0 THEN "silent" ELSE "active"]
       /\ pc' = IF sync_skip_tune(first) THEN "sync" ELSE "mute"
  /\ retry_i' = 0
  /\ UNCHANGED <<call, args, ih, ended, exit_code, ser, bl, prog_status, start_time,
                 summary, tidx, total_n, ph, sw>>

\* be_quiet and enter_bootloader on the link s.  fault: "none", "reconfigure"
\* (the switch to the application settings raises), "early" (a raise before
\* the link settings are cached: an invalid device id) or "interrupt"
\* (KeyboardInterrupt in the first sleep).  The finally block restores the
\* cached settings, or the defaults (bl_baudrate, even parity) when none were
\* cached.
app_frame(s, bl_baudrate, fault) ==
  IF fault \in {"early", "interrupt"}
  THEN [ser |-> [s EXCEPT !.baudrate = bl_baudrate, !.parity = "E"],
        raised |-> IF fault = "early" THEN "Exception" ELSE "KeyboardInterrupt",
        frames |-> 0]
  ELSE IF fault = "reconfigure"
  THEN [ser |-> s, raised |-> "Exception", frames |-> 0]
  ELSE [ser |-> s, raised |-> "none", frames |-> FRAME_REPEAT]

be_quiet(s, bl_baudrate, fault) == app_frame(s, bl_baudrate, fault)

enter_bootloader(s, dev_id, bl_baudrate, fault) ==
  IF dev_id < 0 \/ dev_id > MAX_DEV_ID
  THEN app_frame(s, bl_baudrate, "early")
  ELSE app_frame(s, bl_baudrate, fault)

FrameFaults == {"none", "reconfigure", "interrupt"}

\* retry(fn): what follows a call of fn that ended with `raised`.
AfterRetry(raised, next) ==
  IF raised = "none"
  THEN /\ pc' = next /\ retry_i' = 0 /\ ended' = ended
       /\ UNCHANGED <<prog_status, bl, tidx>>
  ELSE IF raised = "KeyboardInterrupt"
  THEN Raise("cancelled") /\ UNCHANGED <<prog_status, bl, tidx, retry_i>>
  ELSE IF retry_i = RETRY_ATTEMPTS - 1
  THEN TargetEnds("Fail") /\ UNCHANGED <<ended, retry_i>>
  ELSE retry_i' = retry_i + 1 /\ UNCHANGED <<pc, ended, prog_status, bl, tidx>>

\* main: retry(lambda: be_quiet(sp, bl.baudrate)), one call per step.
Mute ==
  /\ pc = "mute"
  /\ \E fault \in FrameFaults :
       LET r == be_quiet(ser, bl.baudrate, fault)
       IN /\ ser' = r.ser
          /\ hist' = IF r.frames > 0
                     THEN [hist EXCEPT !.step = "mute", !.frames = Append(@, "mute")]
                     ELSE hist
          /\ AfterRetry(r.raised, "enter")
  /\ UNCHANGED <<call, args, ih, exit_code, start_time, summary, total_n, ph, sw>>

\* main: retry(lambda: enter_bootloader(sp, target_id, bl.baudrate)).
EnterBootloader ==
  /\ pc = "enter"
  /\ \E fault \in FrameFaults :
       LET r == enter_bootloader(ser, CurTarget, bl.baudrate, fault)
       IN /\ ser' = r.ser
          /\ hist' = IF r.frames > 0
                     THEN [hist EXCEPT !.step = "enter", !.frames = Append(@, "enter")]
                     ELSE hist
          /\ AfterRetry(r.raised, "sync")
  /\ UNCHANGED <<call, args, ih, exit_code, start_time, summary, total_n, ph, sw>>


\* ------------------------------------------------------------ baud sweeps
\* [base] * repeat, then the neighbours of base in ascending order.
neighbours(base, steps) ==
  {base + i : i \in (0 - steps)..steps} \ {b \in {base + i : i \in (0 - steps)..steps} : b <= 0}

repeated(base, repeat) == [k \in 1..repeat |-> base]

sync_candidates(initial) ==
  LET first == repeated(initial, SYNC_REPEAT)
                 \o sorted(neighbours(initial, SYNC_STEPS) \ {initial})
      others == UNION {neighbours(b, SYNC_STEPS) : b \in BAUDRATES \ {initial}}
  IN first \o sorted(others \ Range(first))

tune_candidates(orig_baud) ==
  repeated(orig_baud, TUNE_REPEAT) \o sorted(neighbours(orig_baud, TUNE_STEPS) \ {orig_baud})

\* The iterations counted by a sweep: the loop breaks at the first failure.
RECURSIVE response_count(_, _)
response_count(okays, n) ==
  IF n > Len(okays) \/ ~okays[n] THEN n - 1 ELSE response_count(okays, n + 1)

\* sync_rate: an iteration succeeds when the first byte read is ACK or NACK.
sync_rate(bytes) ==
  response_count([k \in DOMAIN bytes |-> bytes[k] \in {ACK, NACK}], 1)

\* baud_tune: an iteration succeeds when get_commands returns a non-empty
\* superset of the required commands.
tune_rate(scripts) ==
  response_count([k \in DOMAIN scripts |->
                    /\ get_commands(scripts[k]) # <<>>
                    /\ COMMAND_SET \subseteq Range(get_commands(scripts[k]))], 1)

\* sync: the candidate replaces the best one when its rate is higher.
sync_better(rate, best_rate) == rate > best_rate

\* baud_tune: ... when its rate reaches the threshold and is higher.
tune_better(rate, best_rate, threshold) == rate >= threshold /\ rate > best_rate

\* sync: the sweep fails when no candidate was kept or the best is too low.
sync_fails(best_baud, best_rate, threshold) ==
  best_baud = None \/ best_rate < threshold

\* main: bl.sync(total_bar, target_id, skip_tune=args.no_tune, ...), one
\* candidate per step when the sweep runs.
Sync ==
  /\ pc = "sync"
  /\ IF args.no_tune
     THEN /\ \E first \in 0..ACTIVATE_ATTEMPTS :
               hist' = [hist EXCEPT !.step = "sync", !.probed = "", !.frames = <<>>]
          /\ pc' = "get_pid"
          /\ UNCHANGED <<ser, bl, sw, prog_status, tidx>>
     ELSE \E bytes \in [1..TuneRequests -> Reply] :
            LET cands == sync_candidates(bl.initial_baudrate)
                baud == cands[sw.k + 1]
                rate == sync_rate(bytes)
                better == sync_better(rate, sw.best_rate)
                best_baud == IF better \/ rate = TuneRequests THEN baud ELSE sw.best_baud
                best_rate == IF better \/ rate = TuneRequests THEN rate ELSE sw.best_rate
            IN /\ hist' = [hist EXCEPT !.step = "sync", !.probed = "", !.frames = <<>>,
                                       !.sweep = measured(@, sw.k, baud, rate, args.tune_threshold)]
               /\ IF rate # TuneRequests /\ sw.k + 1 < Len(cands)
                  THEN /\ sw' = [sw EXCEPT !.k = sw.k + 1, !.best_baud = best_baud,
                                           !.best_rate = best_rate]
                       /\ ser' = [ser EXCEPT !.baudrate = baud]
                       /\ UNCHANGED <<pc, bl, prog_status, tidx>>
                  ELSE IF sync_fails(best_baud, best_rate, args.tune_threshold)
                  THEN /\ sw' = NoSw
                       /\ ser' = [ser EXCEPT !.baudrate = baud]
                       /\ TargetEnds("Fail")
                  ELSE /\ sw' = NoSw
                       /\ ser' = [ser EXCEPT !.baudrate = best_baud]
                       /\ bl' = [bl EXCEPT !.baudrate = best_baud]
                       /\ pc' = "baud_tune"
                       /\ UNCHANGED <<prog_status, tidx>>
  /\ UNCHANGED <<call, args, ih, ended, exit_code, start_time, summary, total_n, ph,
                 retry_i>>

\* The finally block of baud_tune on the engine b.
tune_finally_bl(b, orig_cmd_attempts) == [b EXCEPT !.attempts_cmd = orig_cmd_attempts]

tune_finally_timeout(b) == [kind |-> "page", baud |-> b.baudrate]

\* baud_tune: entry, up to the candidate loop.
BaudTuneEnter ==
  /\ pc = "baud_tune"
  /\ sw' = [NoSw EXCEPT !.orig_cmd_attempts = bl.attempts_cmd,
                        !.orig_baud = ser.baudrate]
  /\ bl' = [bl EXCEPT !.attempts_cmd = 1]
  /\ ser' = [ser EXCEPT !.timeout = [kind |-> "tune", baud |-> ser.baudrate]]
  /\ pc' = "baud_tune_loop"
  /\ hist' = [hist EXCEPT !.sweep = NoSweep,
                          !.entry = [attempts_cmd |-> bl.attempts_cmd,
                                     timeout |-> ser.timeout.kind,
                                     baud |-> ser.baudrate]]
  /\ UNCHANGED <<call, args, ih, ended, exit_code, prog_status, start_time, summary,
                 tidx, total_n, ph, retry_i>>

\* baud_tune: one candidate per step, then the result and the finally block.
BaudTuneSweep ==
  /\ pc = "baud_tune_loop"
  /\ \E scripts \in [1..TuneRequests -> GetScripts] :
       LET cands == tune_candidates(sw.orig_baud)
           baud == cands[sw.k + 1]
           rate == tune_rate(scripts)
           better == tune_better(rate, sw.best_rate, args.tune_threshold)
           best_baud == IF better \/ rate = TuneRequests THEN baud ELSE sw.best_baud
           best_rate == IF better \/ rate = TuneRequests THEN rate ELSE sw.best_rate
           b1 == [bl EXCEPT !.baudrate = baud]
       IN /\ hist' = [hist EXCEPT !.step = "tune",
                                  !.sweep = measured(@, sw.k, baud, rate, args.tune_threshold)]
          /\ IF rate = TuneRequests
             THEN /\ sw' = NoSw
                  /\ bl' = tune_finally_bl(b1, sw.orig_cmd_attempts)
                  /\ ser' = [ser EXCEPT !.baudrate = baud,
                                        !.timeout = tune_finally_timeout(b1)]
                  /\ pc' = "get_pid"
                  /\ UNCHANGED <<prog_status, tidx>>
             ELSE IF sw.k + 1 < Len(cands)
             THEN /\ sw' = [sw EXCEPT !.k = sw.k + 1, !.best_baud = best_baud,
                                      !.best_rate = best_rate]
                  /\ bl' = b1
                  /\ ser' = [ser EXCEPT !.baudrate = baud]
                  /\ UNCHANGED <<pc, prog_status, tidx>>
             ELSE IF best_baud # None
             THEN LET b2 == [bl EXCEPT !.baudrate = best_baud]
                  IN /\ sw' = NoSw
                     /\ bl' = tune_finally_bl(b2, sw.orig_cmd_attempts)
                     /\ ser' = [ser EXCEPT !.baudrate = best_baud,
                                           !.timeout = tune_finally_timeout(b2)]
                     /\ pc' = "get_pid"
                     /\ UNCHANGED <<prog_status, tidx>>
             ELSE /\ sw' = NoSw
                  /\ ser' = [ser EXCEPT !.baudrate = baud,
                                        !.timeout = tune_finally_timeout(b1)]
                  /\ TargetEndsBl("Fail", tune_finally_bl(b1, sw.orig_cmd_attempts))
  /\ UNCHANGED <<call, args, ih, ended, exit_code, start_time, summary, total_n, ph,
                 retry_i>>

\* ------------------------------------------- identification, capabilities
\* Mutant: any PID that was read is accepted.
pid_supported_any(pid) == pid # None

\* main: int(pid, base=16) in bl.SUPPORTED_DEVICE_ID.
pid_supported(pid) == pid \in SUPPORTED_DEVICE_ID

\* main: every cmd of COMMAND_SET is in sup_commands (the bytes returned).
commands_supported(sup_commands) ==
  \A c \in COMMAND_SET : c \in Range(sup_commands)

\* main: pid = bl.get_pid() and the PID check.
GetPid ==
  /\ pc = "get_pid"
  /\ \E t \in PidScripts :
       LET pid == get_pid(t)
       IN /\ hist' = [hist EXCEPT !.step = "pid", !.pid = pid, !.sweep = NoSweep,
                                  !.entry = NoEntry]
          /\ IF pid = None \/ ~pid_supported(pid)
             THEN TargetEnds("Fail")
             ELSE pc' = "get_commands" /\ UNCHANGED <<prog_status, bl, tidx>>
  /\ UNCHANGED <<call, args, ih, ended, exit_code, ser, start_time, summary, total_n,
                 ph, retry_i, sw>>

\* main: sup_commands = bl.get_commands(), the capability check, and the
\* entry of program_hex.
GetCommands ==
  /\ pc = "get_commands"
  /\ \E t \in GetScripts :
       LET sup_commands == get_commands(t)
       IN /\ hist' = [hist EXCEPT !.step = "get", !.cmds = sup_commands]
          /\ IF ~commands_supported(sup_commands)
             THEN TargetEnds("Fail") /\ ph' = ph
             ELSE /\ pc' = "erase"
                  /\ ph' = [NoPh EXCEPT !.sidx = 1]
                  /\ UNCHANGED <<prog_status, bl, tidx>>
  /\ UNCHANGED <<call, args, ih, ended, exit_code, ser, start_time, summary, total_n,
                 retry_i, sw>>


\* ------------------------------------------------------------ program_hex
\* The sector being handled, its start address and its number of chunks.
CurSector == bl.used_sectors[ph.sidx]
sector_start(sector) == FLASH_SECTORS[sector + 1][1]
\* chunk = bytes(bl.data[chunk_start - min_addr : chunk_start - min_addr + CHUNK])
chunk_of(b, sector, i) ==
  LET chunk_start == sector_start(sector) + i * CHUNK
  IN PySlice(b.data, chunk_start - b.min_addr, chunk_start - b.min_addr + CHUNK)

\* The status program_hex returns after GO was acknowledged.
final_status(warn_detected) == IF warn_detected THEN "Warning" ELSE "Success"

\* Mutant: the failed attempt is not rolled back.
rollback_none(n, credited) == n

\* program_hex: the rollback of the failed attempt, total_bar.update(-credited).
rollback(n, credited) == n - credited

\* Mutant: when the erase attempts run out the loop goes on to the next sector.
SectorExhausted_continue ==
  /\ hist' = [hist EXCEPT !.exhausted = CurSector]
  /\ UNCHANGED <<prog_status, bl, tidx>>
  /\ IF ph.sidx < Len(bl.used_sectors)
     THEN pc' = "erase" /\ ph' = [ph EXCEPT !.sidx = ph.sidx + 1, !.erase_attempt = 0]
     ELSE pc' = "go" /\ ph' = [ph EXCEPT !.attempt = 0]

\* program_hex: the else branch of the erase loop, return "Fail".
SectorExhausted ==
  /\ hist' = [hist EXCEPT !.exhausted = CurSector]
  /\ TargetEnds("Fail")
  /\ ph' = NoPh

\* Mutant: the erase attempt does not discard the pending input.
erase_attempt_head_nodrain(sector, ok) ==
  << <<(IF ok THEN "erase_ack" ELSE "erase_nack"), sector>> >>

\* program_hex: the head of an erase attempt: bl.ser.reset_input(), then
\* bl.erase_sector(sector), which returns ok.
erase_attempt_head(sector, ok) ==
  << <<"reset_input", sector>>, <<(IF ok THEN "erase_ack" ELSE "erase_nack"), sector>> >>

\* The chunks of cs that are not of the sector.
without(cs, sector) == {c \in cs : c[1] # sector}

\* Mutant: any non-empty read-back passes the verify.
read_back_any(data, chunk) == data # <<>>

\* program_hex: bl.read_mem(chunk_start, len(chunk)) == chunk.
read_back_equal(data, chunk) == data = chunk

\* The events s with the event e, kept once.
logged(s, e) == IF e \in Range(s) THEN s ELSE Append(s, e)

\* Mutant: the erase loop makes one attempt too many.
erase_attempts_more(a) == a.attempts_erase + 1

\* program_hex: the bound of the erase loop, range(bl.attempts_erase).
erase_attempts(a) == a.attempts_erase

\* program_hex: one erase attempt of the current sector, or the else branch
\* of the erase loop when the attempts are used up.
EraseAttempt ==
  /\ pc = "erase"
  /\ IF ph.erase_attempt >= erase_attempts(args)
     THEN SectorExhausted
     ELSE \E t \in AckScripts :
            /\ hist' = [hist EXCEPT !.step = "erase",
                                    !.sectors = @ \cup {CurSector},
                                    !.verified = @ \ {CurSector},
                                    !.erase_failed = @ \/ ~erase_sector(t),
                                    !.attempt = erase_attempt_head(CurSector, erase_sector(t)),
                                    !.wrote = without(@, CurSector),
                                    !.proven = without(@, CurSector),
                                    !.made = [@ EXCEPT !.erase = @ + 1]]
            /\ IF ~erase_sector(t)
               THEN ph' = [ph EXCEPT !.warn_detected = TRUE,
                                     !.erase_attempt = ph.erase_attempt + 1]
               ELSE ph' = [ph EXCEPT !.all_ok = TRUE, !.credited = 0, !.i = 0]
            /\ pc' = IF erase_sector(t) THEN "chunk" ELSE "erase"
            /\ UNCHANGED <<prog_status, bl, tidx>>
  /\ UNCHANGED <<call, args, ih, ended, exit_code, ser, start_time, summary, total_n,
                 retry_i, sw>>

\* program_hex: the head of the chunk loop: the sector is done after its
\* last chunk, a blank chunk is credited and skipped, another one is written.
ChunkStep ==
  /\ pc = "chunk"
  /\ IF ph.i >= sector_chunks(CurSector)
     THEN /\ hist' = [hist EXCEPT !.verified = @ \cup {CurSector},
                                  !.made = [@ EXCEPT !.erase = 0]]
          /\ total_n' = total_n
          /\ IF ph.sidx < Len(bl.used_sectors)
             THEN pc' = "erase" /\ ph' = [ph EXCEPT !.sidx = ph.sidx + 1, !.erase_attempt = 0]
             ELSE pc' = "go" /\ ph' = [ph EXCEPT !.attempt = 0]
     ELSE IF all_blank(chunk_of(bl, CurSector, ph.i))
     THEN /\ total_n' = total_n + 1
          /\ ph' = [ph EXCEPT !.credited = ph.credited + 1, !.i = ph.i + 1]
          /\ UNCHANGED <<pc, hist>>
     ELSE /\ pc' = "write"
          /\ ph' = [ph EXCEPT !.attempt = 0]
          /\ UNCHANGED <<total_n, hist>>
  /\ UNCHANGED <<call, args, ih, ended, exit_code, ser, bl, prog_status, start_time,
                 summary, tidx, retry_i, sw>>

\* The sector attempt failed: progress is rolled back, next erase attempt.
AttemptFailed ==
  /\ total_n' = rollback(total_n, ph.credited)
  /\ ph' = [ph EXCEPT !.warn_detected = TRUE, !.all_ok = FALSE,
                      !.erase_attempt = ph.erase_attempt + 1]
  /\ pc' = "erase"

\* program_hex: one write attempt of the current chunk, or the else branch
\* of the write loop.
WriteChunk ==
  /\ pc = "write"
  /\ IF ph.attempt >= bl.attempts_cmd
     THEN AttemptFailed /\ hist' = [hist EXCEPT !.rolled = @ \/ ph.credited > 0,
                                                !.wrote = without(@, CurSector),
                                                !.proven = without(@, CurSector),
                                                !.made = [@ EXCEPT !.write = 0, !.read = 0]]
     ELSE \E t \in WriteScripts :
            /\ hist' = [hist EXCEPT !.step = "write",
                                    !.sectors = @ \cup {CurSector},
                                    !.blank_io = @ \/ Range(chunk_of(bl, CurSector, ph.i)) \subseteq {BLANK},
                                    !.retried = @ \/ ~write_mem(t),
                                    !.attempt = logged(@, <<"write", CurSector>>),
                                    !.wrote = IF write_mem(t)
                                              THEN @ \cup {<<CurSector, ph.i>>} ELSE @,
                                    !.proven = @ \ {<<CurSector, ph.i>>},
                                    !.made = [@ EXCEPT !.write = IF write_mem(t) THEN 0
                                                                 ELSE @ + 1]]
            /\ total_n' = total_n
            /\ IF write_mem(t)
               THEN pc' = "verify" /\ ph' = [ph EXCEPT !.attempt = 0]
               ELSE /\ pc' = pc
                    /\ ph' = [ph EXCEPT !.attempt = ph.attempt + 1]
  /\ UNCHANGED <<call, args, ih, ended, exit_code, ser, bl, prog_status, start_time,
                 summary, tidx, retry_i, sw>>

\* program_hex: one verify attempt of the current chunk, or the else branch
\* of the verify loop.
VerifyChunk ==
  /\ pc = "verify"
  /\ IF ph.attempt >= bl.attempts_cmd
     THEN AttemptFailed /\ hist' = [hist EXCEPT !.rolled = @ \/ ph.credited > 0,
                                                !.wrote = without(@, CurSector),
                                                !.proven = without(@, CurSector),
                                                !.made = [@ EXCEPT !.write = 0, !.read = 0]]
     ELSE LET chunk == chunk_of(bl, CurSector, ph.i)
          IN \E t \in ReadScripts(chunk) :
               /\ hist' = [hist EXCEPT !.step = "read",
                                       !.sectors = @ \cup {CurSector},
                                       !.blank_io = @ \/ Range(chunk) \subseteq {BLANK},
                                       !.retried = @ \/ read_mem(t, Len(chunk)) # chunk,
                                       !.attempt = logged(@, <<"read", CurSector>>),
                                       !.proven = IF read_mem(t, Len(chunk)) = chunk
                                                  THEN @ \cup {<<CurSector, ph.i>>}
                                                  ELSE @,
                                       !.made = [@ EXCEPT !.read =
                                                   IF read_mem(t, Len(chunk)) = chunk
                                                   THEN 0 ELSE @ + 1]]
               /\ IF read_back_equal(read_mem(t, Len(chunk)), chunk)
                  THEN /\ total_n' = total_n + 1
                       /\ pc' = "chunk"
                       /\ ph' = [ph EXCEPT !.credited = ph.credited + 1, !.i = ph.i + 1]
                  ELSE /\ total_n' = total_n
                       /\ pc' = pc
                       /\ ph' = [ph EXCEPT !.attempt = ph.attempt + 1]
  /\ UNCHANGED <<call, args, ih, ended, exit_code, ser, bl, prog_status, start_time,
                 summary, tidx, retry_i, sw>>

\* Mutant: the GO loop makes one attempt too many.
go_attempts_more(b) == b.attempts_cmd + 1

\* program_hex: the bound of the GO loop, range(bl.attempts_cmd).
go_attempts(b) == b.attempts_cmd

\* program_hex: one start_application attempt, or the else branch of the
\* GO loop; main then records the status.
StartApplication ==
  /\ pc = "go"
  /\ IF ph.attempt >= go_attempts(bl)
     THEN TargetEnds("Fail") /\ ph' = NoPh /\ hist' = hist
     ELSE \E t \in AckScripts :
            /\ hist' = [hist EXCEPT !.step = "go",
                                    !.go_pairs = @ + cmd(t.replies).sent,
                                    !.go_ok = @ + (IF start_application(t) THEN 1 ELSE 0),
                                    !.made = [@ EXCEPT !.go = IF start_application(t)
                                                              THEN 0 ELSE @ + 1]]
            /\ IF start_application(t)
               THEN TargetEnds(final_status(ph.warn_detected)) /\ ph' = NoPh
               ELSE /\ ph' = [ph EXCEPT !.attempt = ph.attempt + 1]
                    /\ UNCHANGED <<pc, prog_status, bl, tidx>>
  /\ UNCHANGED <<call, args, ih, ended, exit_code, ser, start_time, summary, total_n,
                 retry_i, sw>>

\* ------------------------------------------------------------------- spec
Next ==
  \/ BaudrateCheck
  \/ HexfileCheck
  \/ OpenPort
  \/ Construct
  \/ AddressCheck
  \/ ForTarget
  \/ Probe
  \/ Mute
  \/ EnterBootloader
  \/ Sync
  \/ BaudTuneEnter
  \/ BaudTuneSweep
  \/ GetPid
  \/ GetCommands
  \/ EraseAttempt
  \/ ChunkStep
  \/ WriteChunk
  \/ VerifyChunk
  \/ StartApplication
  \/ Finally

Spec == Init /\ [][Next]_vars


\* ========================================================= single calls
\* The functions of the engine called one at a time on inputs drawn from
\* small sets; call records the inputs and the result of the one call made.

\* ----------------------------------------------------- bytes and CRC-8
\* Python's a ^ b on non-negative integers.
RECURSIVE xor(_, _)
xor(a, b) ==
  IF a = 0 /\ b = 0 THEN 0
  ELSE ((a + b) % 2) + 2 * xor(a \div 2, b \div 2)

CRC_POLY == 29

\* Mutant: the polynomial is never folded in.
crc_shift_plain(crc) == (crc * 2) % 256

\* getCrc8: crc = ((crc << 1) ^ 0x1D if crc & 0x80 else crc << 1) & 0xFF.
crc_shift(crc) ==
  IF (crc \div 128) % 2 = 1 THEN xor(crc * 2, CRC_POLY) % 256 ELSE (crc * 2) % 256

\* getCrc8: for i in range(8).
RECURSIVE crc_shifts(_, _)
crc_shifts(crc, n) == IF n = 0 THEN crc ELSE crc_shifts(crc_shift(crc), n - 1)

\* getCrc8: the loop body, crc ^= cell and the eight shifts, as a function of
\* crc and cell.
crc_cell == [crc \in 0..255 |-> [cell \in 0..255 |-> crc_shifts(xor(crc, cell), 8)]]

\* getCrc8: crc after the loop body has run for the first k cells.
RECURSIVE crc_upto(_, _)
crc_upto(buffer, k) ==
  IF k = 0 THEN 0
  ELSE crc_cell[crc_upto(buffer, k - 1)][buffer[k]]

getCrc8(buffer) == crc_upto(buffer, Len(buffer))

PREAMBLE == 170
FRAME_LEN_TENS == 1
CMD_TYPE == 3
CMD_MUTE == 218
CMD_ENTER_BOOTLOADER == 223
BROADCAST_ID == 65535

\* struct.pack("<BBHBBBBB", 0xAA, 1, dev_id, 0x03, command, 0, 0, 0) followed
\* by the CRC of these bytes.
pack_frame(dev_id, command) ==
  LET frame == <<PREAMBLE, FRAME_LEN_TENS, dev_id % 256, (dev_id \div 256) % 256,
                 CMD_TYPE, command, 0, 0, 0>>
  IN Append(frame, getCrc8(frame))

\* be_quiet: the frame sent to every device.
mute_frame == pack_frame(BROADCAST_ID, CMD_MUTE)

\* enter_bootloader: the frame sent to the device dev_id.
enter_frame(dev_id) == pack_frame(dev_id, CMD_ENTER_BOOTLOADER)

\* The device ids and the buffers the calls are tried on.
DevIds == {0, 1, 2, 255, 256, 4660, MAX_DEV_ID}
CheckString == <<49, 50, 51, 52, 53, 54, 55, 56, 57>>
CrcBuffers == {<<b>> : b \in 0..255} \cup {<<>>, <<1, 2>>, <<255, 255, 3>>, CheckString}

\* getCrc8(buffer).
CrcCall ==
  /\ call = NoCall
  /\ \E buffer \in CrcBuffers :
       call' = [op |-> "getCrc8", buffer |-> buffer, result |-> getCrc8(buffer)]
  /\ UNCHANGED main_vars

\* The frame be_quiet or enter_bootloader hands to send_data.
FrameCall ==
  /\ call = NoCall
  /\ \/ call' = [op |-> "be_quiet", dev_id |-> BROADCAST_ID, frame |-> mute_frame]
     \/ \E dev_id \in DevIds :
          call' = [op |-> "enter_bootloader", dev_id |-> dev_id,
                   frame |-> enter_frame(dev_id)]
  /\ UNCHANGED main_vars

\* ------------------------------------------------------ the --targets list
\* A command-line string is a sequence of characters.
DigitChars == <<"0", "1", "2", "3", "4", "5", "6", "7", "8", "9">>

is_digit(c) == \E k \in DOMAIN DigitChars : DigitChars[k] = c

digit_value(c) == (CHOOSE k \in DOMAIN DigitChars : DigitChars[k] = c) - 1

\* str.split(sep): the pieces between the separators, empty ones included.
RECURSIVE split(_, _)
split(str, sep) ==
  IF \A k \in DOMAIN str : str[k] # sep THEN <<str>>
  ELSE LET k == SetMin({j \in DOMAIN str : str[j] = sep})
       IN <<SubSeq(str, 1, k - 1)>> \o split(SubSeq(str, k + 1, Len(str)), sep)

\* str.strip().split(): the pieces between runs of blanks, none empty.
split_blank(str) == SelectSeq(split(str, " "), LAMBDA piece : piece # <<>>)

\* int(str) for a string of digits and dashes: None stands for ValueError.
RECURSIVE decimal(_)
decimal(str) ==
  IF str = <<>> THEN 0
  ELSE 10 * decimal(SubSeq(str, 1, Len(str) - 1)) + digit_value(str[Len(str)])

py_int(str) ==
  IF str = <<>> \/ \E k \in DOMAIN str : ~is_digit(str[k]) THEN None
  ELSE decimal(str)

\* Mutant: the end of a range is left out.
range_ids_open(start, end) == start..(end - 1)

\* parse_targets: range(start, end + 1).
range_ids(start, end) == start..end

\* parse_target_arg: one part, a record of type "range" or "single", or of
\* type "invalid" when the part raises ValueError.
parse_part(part) ==
  IF "-" \in Range(part)
  THEN LET pieces == split(part, "-")
       IN IF Len(pieces) # 2 THEN [type |-> "invalid"]
          ELSE LET start == py_int(pieces[1])
                   end == py_int(pieces[2])
               IN IF start = None \/ end = None THEN [type |-> "invalid"]
                  ELSE IF start < 0 \/ end < 0 \/ start > end THEN [type |-> "invalid"]
                  ELSE [type |-> "range", start |-> start, end |-> end]
  ELSE LET single_id == py_int(part)
       IN IF single_id = None THEN [type |-> "invalid"]
          ELSE IF single_id < 0 THEN [type |-> "invalid"]
          ELSE [type |-> "single", id |-> single_id]

\* parse_target_arg(s): the records of the parts of s; ok is false when a
\* part raises ArgumentTypeError.
parse_target_arg(str) ==
  LET parts == split_blank(str)
      results == [k \in DOMAIN parts |-> parse_part(parts[k])]
  IN [ok |-> \A k \in DOMAIN results : results[k].type # "invalid",
      results |-> results]

\* parse_targets: the ids of the records, sorted, each once.
parse_targets(target_args) ==
  sorted(UNION {IF target_args[k].type = "range"
                THEN range_ids(target_args[k].start, target_args[k].end)
                ELSE {target_args[k].id} : k \in DOMAIN target_args})

RECURSIVE flatten(_)
flatten(lists) == IF lists = <<>> THEN <<>> ELSE Head(lists) \o flatten(Tail(lists))

\* args_get: --targets with type=parse_target_arg and nargs="+", then the
\* flattening and parse_targets.  ok is false when argparse rejects a string.
args_targets(strings) ==
  LET parsed == [k \in DOMAIN strings |-> parse_target_arg(strings[k])]
  IN IF \E k \in DOMAIN parsed : ~parsed[k].ok
     THEN [ok |-> FALSE, targets |-> <<>>]
     ELSE [ok |-> TRUE,
           targets |-> parse_targets(flatten([k \in DOMAIN parsed |-> parsed[k].results]))]

\* The strings given to --targets in the calls, and how many at most.
MaxTargetArgs == 3

TargetArgs ==
  {<<"1">>, <<"7">>, <<"0">>, <<"1", "0">>, <<"2", "-", "2">>, <<"1", "-", "3">>,
   <<"0", "-", "1">>, <<"2", " ", "5">>, <<"3", "-", "1">>, <<"-", "1">>,
   <<"1", "-">>, <<"1", "-", "2", "-", "3">>}

TargetArgLists == UNION {[1..n -> TargetArgs] : n \in 1..MaxTargetArgs}

\* args_get on --targets strings.
TargetsCall ==
  /\ call = NoCall
  /\ \E strings \in TargetArgLists :
       call' = [op |-> "args_get", strings |-> strings, result |-> args_targets(strings)]
  /\ UNCHANGED main_vars

\* ------------------------------------------------- calls of the engine
\* STM32BL.cmd: the bytes of one send, bytes([cmd, cmd ^ 0xFF]).
cmd_pair(opcode) == <<opcode, xor(opcode, 255)>>

\* STM32BL.cmd: all the bytes sent for the target's answers `replies`.
cmd_wire(opcode, replies) ==
  flatten([k \in 1..cmd(replies).sent |-> cmd_pair(opcode)])

\* bl.cmd(opcode) on an engine whose attempts_cmd is attempts_cmd.
CmdCall ==
  /\ call = NoCall
  /\ \E opcode \in COMMAND_SET, replies \in [1..CMD_ATTEMPTS -> Reply],
        attempts_cmd \in 0..MaxAttemptsCmd :
       call' = [op |-> "cmd", opcode |-> opcode, attempts_cmd |-> attempts_cmd,
                replies |-> replies, result |-> cmd(replies).ok,
                wire |-> cmd_wire(opcode, replies)]
  /\ UNCHANGED main_vars

\* bl.get_commands() and bl.get_pid().
GetCall ==
  /\ call = NoCall
  /\ \/ \E t \in GetScripts :
          call' = [op |-> "get_commands", t |-> t, result |-> get_commands(t)]
     \/ \E t \in PidScripts :
          call' = [op |-> "get_pid", t |-> t, result |-> get_pid(t)]
  /\ UNCHANGED main_vars

\* bl.read_mem(addr, size) for the chunks of the images.
ReadChunks == {<<4, 5>>, <<BLANK, 7>>}

ReadMemCall ==
  /\ call = NoCall
  /\ \E chunk \in ReadChunks : \E t \in ReadScripts(chunk) :
       call' = [op |-> "read_mem", size |-> Len(chunk), t |-> t,
                result |-> read_mem(t, Len(chunk))]
  /\ UNCHANGED main_vars

\* The iterations a sweep loop makes for one candidate when it counts
\* `count` responses: it leaves at the first iteration that fails.
iterations_run(count) == Min(count + 1, TuneRequests)

\* The operations on the link, in order, of STM32BL._read_ack reading r: the
\* read, and after a failed one the resync probe and the reset_input.
read_ack_link(r) ==
  IF read_ack(r) THEN <<"ack">> ELSE <<"no_ack", "probe_bootloader", "reset_input">>

\* ... of STM32BL.cmd: each attempt sends the pair and reads the ACK.
cmd_link(replies) ==
  flatten([k \in 1..cmd(replies).sent |-> <<"send_data">> \o read_ack_link(replies[k])])

\* ... of STM32BL.get_commands under the target behaviour t.
get_commands_link(t) ==
  cmd_link(t.replies)
    \o (IF ~cmd(t.replies).ok THEN <<>>
        ELSE IF t.len = NoByte THEN <<"recv_data">>
        ELSE IF Len(recv_data(t.payload, t.len + 1)) # t.len + 1
        THEN <<"recv_data", "recv_data">>
        ELSE <<"recv_data", "recv_data">> \o read_ack_link(t.ack))

\* ... of sync_rate(baud, bar): the baud rate is set, then each iteration
\* sends 0x7F twice and reads what arrived.
sync_rate_link(bytes) ==
  <<"baudrate">>
    \o flatten([k \in 1..iterations_run(sync_rate(bytes)) |->
                  <<"send_data", "send_data", "recv_all">>])

\* ... of baud_tune for one candidate: the baud rate is set, then each
\* iteration calls get_commands.
tune_link(scripts) ==
  <<"baudrate">>
    \o flatten([k \in 1..iterations_run(tune_rate(scripts)) |->
                  get_commands_link(scripts[k])])

\* sync_rate(baud, bar) and the request loop of baud_tune for one candidate.
RateCall ==
  /\ call = NoCall
  /\ \/ \E bytes \in [1..TuneRequests -> Reply] :
          call' = [op |-> "sync_rate", bytes |-> bytes,
                   iterations |-> iterations_run(sync_rate(bytes)),
                   link |-> sync_rate_link(bytes),
                   result |-> sync_rate(bytes)]
     \/ \E scripts \in [1..TuneRequests -> GetScripts] :
          call' = [op |-> "tune_rate", scripts |-> scripts,
                   iterations |-> iterations_run(tune_rate(scripts)),
                   link |-> tune_link(scripts),
                   result |-> tune_rate(scripts)]
  /\ UNCHANGED main_vars

\* ------------------------------------------------- calls of the serial link
\* A port p: is_open, port (the port name is set), recent (the last open is
\* less than RECONNECT_INTERVAL old) and reopens (the port can be opened
\* again).  An operation returns a record: raised (an exception leaves it),
\* reconnects (the calls of reconnect it made) and, for a receive, data.
Ports == [is_open : BOOLEAN, port : BOOLEAN, recent : BOOLEAN, reopens : BOOLEAN]

\* SerialPort.reconnect: nothing without a port name or within the cooldown;
\* otherwise close and __init__, whose SerialException is caught.
reconnect(p) ==
  IF ~p.port THEN p
  ELSE IF p.recent THEN p
  ELSE [p EXCEPT !.is_open = p.reopens, !.recent = p.reopens]

\* What an operation does with a SerialException raised inside it.
caught(data) == [raised |-> FALSE, reconnects |-> 1, data |-> data]
returned(data) == [raised |-> FALSE, reconnects |-> 0, data |-> data]

\* SerialPort.send_data: fault is a SerialException of write or flush, or a
\* partial write.
SerialPort_send_data(p, fault) ==
  IF ~p.is_open \/ fault THEN caught(<<>>) ELSE returned(<<>>)

\* SerialPort.recv_data(size, stall_timeout): the port delivers `offered`
\* and then, when fault, raises a SerialException.  stall is "none"
\* (stall_timeout 0: one read with the link timeout), "valid", "negative" or
\* "off_grid" (ValueError).
SerialPort_recv_data(p, size, stall, offered, fault) ==
  IF stall \in {"negative", "off_grid"} THEN returned(<<>>)
  ELSE IF ~p.is_open THEN caught(<<>>)
  ELSE IF stall = "valid"
  THEN IF fault /\ Len(offered) < size
       THEN caught(offered)
       ELSE returned(recv_data(offered, size))
  ELSE IF fault THEN caught(<<>>) ELSE returned(recv_data(offered, size))

\* SerialPort.recv_all.
SerialPort_recv_all(p, offered, fault) ==
  IF ~p.is_open \/ fault THEN caught(<<>>) ELSE returned(offered)

\* SerialPort.reset_input.
SerialPort_reset_input(p, fault) ==
  IF ~p.is_open \/ fault THEN caught(<<>>) ELSE returned(<<>>)

\* One operation of the link; error: a SerialException was raised inside it.
LinkCall ==
  /\ call = NoCall
  /\ \E p \in Ports, fault \in BOOLEAN :
       \/ call' = [op |-> "send_data", p |-> p, error |-> ~p.is_open \/ fault,
                   after |-> IF ~p.is_open \/ fault THEN reconnect(p) ELSE p,
                   r |-> SerialPort_send_data(p, fault)]
       \/ \E size \in 1..CHUNK, stall \in {"none", "valid", "negative", "off_grid"},
             offered \in {<<>>, <<4>>, <<4, 5>>} :
            LET r == SerialPort_recv_data(p, size, stall, offered, fault)
            IN call' = [op |-> "recv_data", p |-> p, size |-> size, stall |-> stall,
                        error |-> r.reconnects > 0,
                        after |-> IF r.reconnects > 0 THEN reconnect(p) ELSE p,
                        r |-> r]
       \/ \E offered \in {<<>>, <<4>>, <<4, 5>>} :
            call' = [op |-> "recv_all", p |-> p, error |-> ~p.is_open \/ fault,
                     after |-> IF ~p.is_open \/ fault THEN reconnect(p) ELSE p,
                     r |-> SerialPort_recv_all(p, offered, fault)]
       \/ call' = [op |-> "reset_input", p |-> p, error |-> ~p.is_open \/ fault,
                   after |-> IF ~p.is_open \/ fault THEN reconnect(p) ELSE p,
                   r |-> SerialPort_reset_input(p, fault)]
  /\ UNCHANGED main_vars

\* ------------------------------------------------- the resync probe
\* The iterations the wall clock leaves to one probe_bootloader call.
MaxPolls == 2

\* The link timeout while probe_bootloader runs: self.ser.timeout = interval.
ProbeInterval == [kind |-> "interval", baud |-> 0]

\* The link timeouts a probe is entered with: the one the port was opened
\* with, and the page timeout baud_tune leaves.
ProbeTimeouts == {[kind |-> "open", baud |-> 0], [kind |-> "page", baud |-> NOMINAL_BAUD]}

\* What happens in one iteration: the target is silent, it answers a byte, or
\* the write or the read raises a SerialException.
ProbePolls == {"silent", "byte", "send_fault", "recv_fault"}

\* probe_bootloader, the while loop from iteration k on: send_data(0xFF),
\* recv_data(1), return at the first non-empty read.  reads collects what the
\* reads returned, p is the port as the reconnects leave it.
RECURSIVE probe_loop(_, _, _, _)
probe_loop(p, polls, k, reads) ==
  IF k > Len(polls) THEN [result |-> FALSE, reads |-> reads, p |-> p]
  ELSE LET sent == SerialPort_send_data(p, polls[k] = "send_fault")
           p1 == IF sent.reconnects > 0 THEN reconnect(p) ELSE p
           resp == SerialPort_recv_data(p1, 1, "none",
                                        IF polls[k] = "byte" THEN <<ACK>> ELSE <<>>,
                                        polls[k] = "recv_fault")
           p2 == IF resp.reconnects > 0 THEN reconnect(p1) ELSE p1
       IN IF resp.data # <<>>
          THEN [result |-> TRUE, reads |-> Append(reads, resp.data), p |-> p2]
          ELSE probe_loop(p2, polls, k + 1, Append(reads, resp.data))

\* Mutant: the finally block leaves the link timeout as it is.
probe_finally_keep(timeout_orig, timeout) == timeout

\* probe_bootloader, the finally block: the timeout is put back when it was
\* saved (NoSer.timeout stands for timeout_orig = None: the probe left before
\* it saved it).
probe_finally(timeout_orig, timeout) ==
  IF timeout_orig # NoSer.timeout THEN timeout_orig ELSE timeout

\* STM32BL.probe_bootloader on the port p with the link timeout `timeout`:
\* set_fault is a SerialException of the assignment of the interval (the
\* attribute is set, the port could not be reconfigured).  during is the
\* link timeout the loop ran with, NoSer.timeout when it did not run.
probe_bootloader(p, timeout, polls, set_fault) ==
  IF ~p.is_open
  THEN [result |-> FALSE, during |-> NoSer.timeout, reads |-> <<>>, p |-> reconnect(p),
        timeout |-> probe_finally(NoSer.timeout, timeout)]
  ELSE IF set_fault
  THEN [result |-> FALSE, during |-> NoSer.timeout, reads |-> <<>>, p |-> reconnect(p),
        timeout |-> probe_finally(timeout, ProbeInterval)]
  ELSE LET loop == probe_loop(p, polls, 1, <<>>)
       IN [result |-> loop.result, during |-> ProbeInterval, reads |-> loop.reads,
           p |-> loop.p, timeout |-> probe_finally(timeout, ProbeInterval)]

\* bl.probe_bootloader(timeout, interval).
ProbeCall ==
  /\ call = NoCall
  /\ \E p \in Ports, timeout \in ProbeTimeouts, n \in 0..MaxPolls, set_fault \in BOOLEAN :
       \E polls \in [1..n -> ProbePolls] :
         call' = [op |-> "probe_bootloader", p |-> p, timeout |-> timeout,
                  polls |-> polls, set_fault |-> set_fault,
                  r |-> probe_bootloader(p, timeout, polls, set_fault)]
  /\ UNCHANGED main_vars

InitFn ==
  /\ args = MkArgs(<<1>>, 1, 1, TRUE, TuneRequests, NOMINAL_BAUD, "ok")
  /\ ih = ImgData
  /\ pc = "call"
  /\ ended = ""
  /\ exit_code = 0
  /\ ser = NoSer
  /\ bl = NoBl
  /\ prog_status = [t \in Range(args.targets) |-> "Undefined"]
  /\ start_time = 0
  /\ summary = <<>>
  /\ tidx = 0
  /\ total_n = 0
  /\ ph = NoPh
  /\ retry_i = 0
  /\ sw = NoSw
  /\ hist = NoHist
  /\ call = NoCall

NextFn ==
  \/ CrcCall
  \/ FrameCall
  \/ TargetsCall
  \/ CmdCall
  \/ GetCall
  \/ ReadMemCall
  \/ RateCall
  \/ LinkCall
  \/ ProbeCall

SpecFn == InitFn /\ [][NextFn]_vars


\* ================================================================= claims
TargetIdx(t) == CHOOSE k \in DOMAIN args.targets : args.targets[k] = t

\* hist describes a target whose pipeline is over.
TargetOver == hist.tid # 0 /\ pc = "for_target"

Programmed == TargetOver /\ prog_status[hist.tid] \in {"Success", "Warning"}

ImageBlank == \A a \in DOMAIN ih : ih[a] = BLANK

\* The successions of pipeline steps the order of C1 allows.
StepOrder ==
  {<<"none", "probe">>, <<"probe", "mute">>, <<"probe", "sync">>,
   <<"mute", "enter">>, <<"enter", "sync">>, <<"tune", "pid">>,
   <<"pid", "get">>, <<"get", "erase">>, <<"erase", "write">>,
   <<"erase", "go">>, <<"write", "read">>, <<"write", "erase">>,
   <<"read", "write">>, <<"read", "erase">>, <<"read", "go">>}
    \cup (IF args.no_tune THEN {<<"sync", "pid">>} ELSE {<<"sync", "tune">>})

C1_Checked ==
  /\ hist.step \in {"erase", "write", "go"}
       => /\ hist.pid \in SUPPORTED_DEVICE_ID
          /\ COMMAND_SET \subseteq Range(hist.cmds)
  /\ hist.step = "go" => Range(bl.used_sectors) \subseteq hist.verified
  /\ hist.step = "tune" => ~args.no_tune

\* C1: for every target the steps follow the order mute, enter-bootloader,
\* sync, tune (only with autotune), PID read, command-list read,
\* erase/program/verify, GO; erase and write come only after the PID and the
\* command list were read and contain what is required; GO comes only when
\* every used sector is verified.
C1_PipelineOrder ==
  /\ []C1_Checked
  /\ [][(hist'.tid = hist.tid /\ hist'.step # hist.step)
          => <<hist.step, hist'.step>> \in StepOrder]_vars

C1_Witness ==
  /\ Programmed
  /\ ~args.no_tune
  /\ hist.step = "go"

\* C2: when the erase attempts of a sector run out, the target is Fail, no
\* later sector was erased or written and no GO was sent.
C2_SectorFailure ==
  hist.exhausted # None
    => /\ pc = "for_target"
       /\ prog_status[hist.tid] = "Fail"
       /\ \A sector \in hist.sectors : sector <= hist.exhausted
       /\ hist.go_pairs = 0

C2_Witness ==
  /\ hist.exhausted # None
  /\ args.attempts_erase > 0
  /\ hist.retried
  /\ \E sector \in Range(bl.used_sectors) : sector > hist.exhausted

\* C3: a programmed target whose write or verify was retried ends Warning;
\* Success means nothing failed.
C3_Claim ==
  Programmed
    => /\ hist.retried => prog_status[hist.tid] = "Warning"
       /\ prog_status[hist.tid] = "Success" => ~hist.retried /\ ~hist.erase_failed

\* C4: the progress counter equals the chunks of the completed sectors, plus
\* the chunks credited in the attempt under way; a failed attempt adds nothing.
C4_Progress ==
  hist.tid # 0
    => total_n = hist.base + chunks_in(hist.verified)
                   + (IF pc \in {"chunk", "write", "verify"} THEN ph.credited ELSE 0)

C4_Witness ==
  /\ pc = "go"
  /\ hist.rolled
  /\ Range(bl.used_sectors) \subseteq hist.verified
  /\ total_n > 0

\* C5: an all-0xFF chunk is never written or read back and is credited once;
\* for an all-0xFF image no write or verify is issued, and when no erase
\* fails the used sectors are erased, GO is issued and an acknowledged GO
\* gives Success.
C5_SkipBlank ==
  /\ ~hist.blank_io
  /\ pc = "chunk" => ph.credited = ph.i
  /\ ImageBlank => hist.step \notin {"write", "read"}
  /\ (/\ ImageBlank /\ TargetOver /\ ~hist.erase_failed
      /\ hist.sectors # {} /\ args.attempts > 0)
       => /\ hist.sectors = Range(bl.used_sectors)
          /\ hist.verified = Range(bl.used_sectors)
          /\ hist.go_pairs >= 1
          /\ hist.go_ok = 1 => prog_status[hist.tid] = "Success"

C5_Witness ==
  /\ ImageBlank
  /\ TargetOver
  /\ prog_status[hist.tid] = "Success"
  /\ total_n > 0

\* C6 as claimed: a programmed target saw the GO opcode pair exactly once.
C6_Claim == Programmed => hist.go_pairs = 1

\* C6 amended: a programmed target saw exactly one acknowledged
\* start_application, the last one, and between one and
\* CMD_ATTEMPTS * attempts_cmd GO opcode pairs.
C6_GoAcknowledgedOnce ==
  /\ hist.go_ok <= 1
  /\ hist.go_ok = 1 => Programmed
  /\ Programmed
       => /\ hist.go_ok = 1
          /\ hist.go_pairs >= 1
          /\ hist.go_pairs <= CMD_ATTEMPTS * args.attempts

C6_Witness == Programmed /\ hist.go_pairs > 1

\* C7: targets are handled in list order, one at a time: while a target is
\* handled every earlier target has a status other than Undefined.
C7_InOrder ==
  hist.tid # 0
    => /\ \A k \in 1..(TargetIdx(hist.tid) - 1) :
            prog_status[args.targets[k]] # "Undefined"
       /\ TargetIdx(hist.tid) = IF pc = "for_target" THEN tidx - 1 ELSE tidx
       /\ \A k \in (TargetIdx(hist.tid) + 1)..Len(args.targets) :
            prog_status[args.targets[k]] = "Undefined"

C7_Witness ==
  /\ Len(args.targets) >= 2
  /\ hist.tid = args.targets[2]
  /\ hist.step = "go"

\* C8: a failure marks the current target only and the loop goes on to the
\* next target; once programming has started the session ends only after the
\* last target or by an operator abort.
C8_FailureIsolated ==
  [][/\ \A t \in DOMAIN prog_status :
          (prog_status[t] # "Fail" /\ prog_status'[t] = "Fail")
            => /\ t = CurTarget
               /\ \A u \in DOMAIN prog_status \ {t} : prog_status'[u] = prog_status[u]
               /\ pc' = "for_target"
               /\ tidx' = tidx + 1
     /\ (start_time # 0 /\ pc # "finally" /\ pc' = "finally")
          => \/ ended' = "cancelled"
             \/ ended' = "normal" /\ tidx > Len(args.targets)]_vars

C8_Witness ==
  /\ Len(args.targets) >= 2
  /\ prog_status[args.targets[1]] = "Fail"
  /\ hist.tid = args.targets[2]
  /\ hist.step = "probe"

\* C9: a target started after a failure was started on the operator's "yes";
\* when the session is over the targets not started are Undefined.
C9_Gating ==
  /\ (/\ hist.tid # 0
      /\ \E k \in 1..(TargetIdx(hist.tid) - 1) : prog_status[args.targets[k]] = "Fail")
       => hist.asked = "yes"
  /\ pc \in {"finally", "done"}
       => \A k \in DOMAIN args.targets :
            k >= tidx => prog_status[args.targets[k]] = "Undefined"

C9_Witness ==
  /\ pc = "done"
  /\ ended = "cancelled"
  /\ bl.failed_once
  /\ \E t \in DOMAIN prog_status : prog_status[t] = "Fail"
  /\ \E t \in DOMAIN prog_status : prog_status[t] = "Undefined"

\* C10: every session, however it ends, prints the summary.
C10_Claim == pc = "done" => summary = <<prog_status>>

\* C11: the mute and enter-bootloader frames are sent only for a target whose
\* probe read nothing; when the activation sync starts, a target whose probe
\* read a response was sent neither frame, and a target whose probe read
\* nothing was sent the mute frame and then the enter-bootloader frame.
C11_ProbeDecides ==
  /\ hist.frames # <<>> => hist.probed = "silent"
  /\ hist.frames \in {<<>>, <<"mute">>, <<"mute", "enter">>}
  /\ (pc = "sync" /\ hist.step # "sync")
       => /\ hist.probed = "active" => hist.frames = <<>>
          /\ hist.probed = "silent" => hist.frames = <<"mute", "enter">>

C11_Witness ==
  /\ pc = "sync"
  /\ hist.step = "enter"
  /\ hist.probed = "silent"
  /\ hist.frames = <<"mute", "enter">>

\* The opcode list of a GET response: the bytes after the protocol version.
OpcodeList(cmds) == IF cmds = <<>> THEN <<>> ELSE Tail(cmds)

\* C12: EXTENDED_ERASE, WRITE_MEMORY, READ_MEMORY and GO are sent only to a
\* target whose PID is supported and whose GET response lists every opcode of
\* COMMAND_SET after the protocol-version byte; any other target ends Fail.
C12_Claim ==
  /\ hist.step \in {"erase", "write", "go"}
       => /\ hist.pid \in SUPPORTED_DEVICE_ID
          /\ COMMAND_SET \subseteq Range(OpcodeList(hist.cmds))
  /\ (/\ TargetOver
      /\ hist.step \in {"pid", "get"}
      /\ \/ hist.pid \notin SUPPORTED_DEVICE_ID
         \/ ~(COMMAND_SET \subseteq Range(OpcodeList(hist.cmds))))
       => prog_status[hist.tid] = "Fail"

\* C13: an image the engine accepted lies within the flash: it starts at or
\* after the start of sector 0 and ends at or before the end of the last
\* sector.
C13_Claim ==
  bl.constructed
    => /\ bl.min_addr >= sector_start(0)
       /\ bl.max_addr <= FlashEnd

\* The ways a configuration error leaves main.
ConfigErrors == {"RuntimeError", "ValueError", "IntelHexError"}

\* C14: a session that ends with a configuration error never opened the UART.
C14_Claim == ended \in ConfigErrors => ~ser.is_open

\* The sectors whose address range intersects [lo, hi].
SectorsBetween(lo, hi) ==
  {i \in 0..(Len(FLASH_SECTORS) - 1) :
     /\ sector_start(i) <= hi
     /\ lo <= sector_start(i) + FLASH_SECTORS[i + 1][2] - 1}

\* C15: used_sectors is the ascending list of the sectors that intersect
\* [min_addr, max_addr].
C15_Claim ==
  bl.constructed
    => bl.used_sectors = sorted(SectorsBetween(bl.min_addr, bl.max_addr))

\* CRC-8/GSM-A by its definition: the remainder of the message followed by
\* eight zero bits, divided bit by bit by x^8 + x^4 + x^3 + x^2 + 1, most
\* significant bit first, register initially 0, nothing reflected, no final
\* XOR.
MessageBits(buffer) ==
  [k \in 1..(8 * Len(buffer) + 8) |->
     IF k > 8 * Len(buffer) THEN 0
     ELSE (buffer[((k - 1) \div 8) + 1] \div (2 ^ (7 - ((k - 1) % 8)))) % 2]

DivisionStep ==
  [reg \in 0..255 |-> [bit \in 0..1 |->
     IF reg >= 128 THEN xor(((reg * 2) % 256) + bit, 29) ELSE ((reg * 2) % 256) + bit]]

\* The register after the first k bits.
RECURSIVE Remainder(_, _)
Remainder(bits, k) ==
  IF k = 0 THEN 0 ELSE DivisionStep[Remainder(bits, k - 1)][bits[k]]

Crc8GsmA(buffer) == Remainder(MessageBits(buffer), 8 * Len(buffer) + 8)

\* C17: the mute and enter-bootloader frames are 10 bytes: 0xAA, 0x01, the
\* device id little-endian (0xFFFF for mute), 0x03, the command byte (0xDA
\* mute, 0xDF enter-bootloader), three zero bytes and the CRC-8/GSM-A of the
\* nine bytes before it; getCrc8 is CRC-8/GSM-A (check value 0x37).
C17_Frames ==
  /\ call.op \in {"be_quiet", "enter_bootloader"}
       => /\ Len(call.frame) = 10
          /\ \A k \in 1..10 : call.frame[k] \in 0..255
          /\ call.frame[1] = 170
          /\ call.frame[2] = 1
          /\ call.frame[3] + 256 * call.frame[4] = call.dev_id
          /\ call.frame[5] = 3
          /\ call.frame[6] = (IF call.op = "be_quiet" THEN 218 ELSE 223)
          /\ call.frame[7] = 0 /\ call.frame[8] = 0 /\ call.frame[9] = 0
          /\ call.frame[10] = Crc8GsmA(SubSeq(call.frame, 1, 9))
          /\ call.op = "be_quiet" => call.dev_id = 65535
  /\ call.op = "getCrc8"
       => /\ call.result = Crc8GsmA(call.buffer)
          /\ call.buffer = CheckString => call.result = 55

C17_Witness ==
  /\ call.op = "enter_bootloader"
  /\ call.dev_id = 4660
  /\ call.frame[3] = 52
  /\ call.frame[4] = 18
  /\ call.frame[10] # 0

\* What each --targets string of the calls stands for: the ids of its
\* non-negative integers and inclusive ranges A-B with A <= B, or invalid.
TokenMeaning(str) ==
  CASE str = <<"1">> -> [valid |-> TRUE, ids |-> {1}]
    [] str = <<"7">> -> [valid |-> TRUE, ids |-> {7}]
    [] str = <<"0">> -> [valid |-> TRUE, ids |-> {0}]
    [] str = <<"1", "0">> -> [valid |-> TRUE, ids |-> {10}]
    [] str = <<"2", "-", "2">> -> [valid |-> TRUE, ids |-> {2}]
    [] str = <<"1", "-", "3">> -> [valid |-> TRUE, ids |-> {1, 2, 3}]
    [] str = <<"0", "-", "1">> -> [valid |-> TRUE, ids |-> {0, 1}]
    [] str = <<"2", " ", "5">> -> [valid |-> TRUE, ids |-> {2, 5}]
    [] OTHER -> [valid |-> FALSE, ids |-> {}]

\* C16: the parsed target list is the ascending list, without duplicates, of
\* the integers in the union of the singletons and inclusive ranges given; a
\* negative token or a range A-B with A > B is rejected.
C16_Targets ==
  call.op = "args_get"
    => LET strings == call.strings
           targets == call.result.targets
       IN /\ call.result.ok <=> \A k \in DOMAIN strings : TokenMeaning(strings[k]).valid
          /\ call.result.ok
               => /\ Range(targets) = UNION {TokenMeaning(strings[k]).ids : k \in DOMAIN strings}
                  /\ \A i, j \in DOMAIN targets : i < j => targets[i] < targets[j]
          /\ (\E k \in DOMAIN strings : strings[k] \in {<<"-", "1">>, <<"3", "-", "1">>})
               => ~call.result.ok

C16_Witness ==
  /\ call.op = "args_get"
  /\ call.strings = << <<"1", "-", "3">>, <<"7">>, <<"2", "-", "2">> >>
  /\ call.result = [ok |-> TRUE, targets |-> <<1, 2, 3, 7>>]

\* C18: cmd sends the pair (c, c XOR 0xFF) at most 3 times, stops at the
\* first acknowledged send and returns true iff a send was acknowledged,
\* whatever attempts_cmd is.
C18_Cmd ==
  call.op = "cmd"
    => LET sends == Len(call.wire) \div 2
           acks == {k \in DOMAIN call.replies : k <= 3 /\ call.replies[k] = ACK}
       IN /\ Len(call.wire) = 2 * sends
          /\ sends \in 1..3
          /\ \A k \in 1..sends :
               /\ call.wire[2 * k - 1] = call.opcode
               /\ call.wire[2 * k] = 255 - call.opcode
          /\ call.result <=> acks # {}
          /\ acks # {} => sends = SetMin(acks)
          /\ acks = {} => sends = 3

C18_Witness ==
  /\ call.op = "cmd"
  /\ call.attempts_cmd = 1
  /\ call.result
  /\ Len(call.wire) = 6

\* A GET or GET_ID exchange without framing failure: the opcode pair was
\* acknowledged, the length byte and the whole payload arrived and the
\* closing byte is an ACK.
WellFramed(t) ==
  /\ \E k \in DOMAIN t.replies : t.replies[k] = ACK
  /\ t.len # NoByte
  /\ Len(t.payload) >= t.len + 1
  /\ t.ack = ACK

\* C19: get_commands and get_pid return their failure value on every framing
\* failure, a missing or wrong closing ACK included.
C19_Claim ==
  /\ (call.op = "get_commands" /\ ~WellFramed(call.t)) => call.result = <<>>
  /\ (call.op = "get_pid" /\ ~WellFramed(call.t)) => call.result = None

\* C20: read_mem returns size bytes or nothing.
C20_Claim == call.op = "read_mem" => Len(call.result) \in {0, call.size}

\* The candidates of the sweep that hist.sweep belongs to.
SweepCandidates ==
  IF hist.step = "sync" THEN sync_candidates(bl.initial_baudrate)
  ELSE tune_candidates(hist.entry.baud)

\* Some candidate's rate reaches the threshold.
Qualifying == hist.sweep.first # None

\* A sweep is over: it went on to the next step, or it failed the target.
SweepChose ==
  \/ hist.step = "sync" /\ pc = "baud_tune"
  \/ hist.step = "tune" /\ pc = "get_pid"

SweepFailed == hist.step \in {"sync", "tune"} /\ pc = "for_target"

\* C21: the candidates are tried in list order; the first one whose rate is
\* 1.0 is locked and none is tried after it; otherwise, after the full
\* sweep, a candidate of the highest rate among those whose rate reaches the
\* threshold is chosen, the first of them (a rate of 0 qualifies for the
\* threshold 0); the sweep fails, and the target is Fail, only when no
\* candidate qualifies; the chosen baud rate is the link's and the engine's.
C21_Claim ==
  /\ (hist.step \in {"sync", "tune"} /\ hist.sweep.n > 0)
       => /\ hist.sweep.n <= Len(SweepCandidates)
          /\ hist.sweep.top = TuneRequests
               => /\ pc # (IF hist.step = "sync" THEN "sync" ELSE "baud_tune_loop")
                  /\ hist.sweep.first = SweepCandidates[hist.sweep.n]
  /\ SweepChose
       => /\ hist.sweep.top = TuneRequests \/ hist.sweep.n = Len(SweepCandidates)
          /\ Qualifying
          /\ ser.baudrate = hist.sweep.first
          /\ bl.baudrate = hist.sweep.first
  /\ SweepFailed
       => /\ prog_status[hist.tid] = "Fail"
          /\ hist.sweep.n = Len(SweepCandidates)
          /\ ~Qualifying

\* baud_tune was left: by a lock, with the best candidate, or by a failure.
TuneLeft == hist.step = "tune" /\ pc \in {"get_pid", "for_target"}

\* C22: during the sweep of baud_tune attempts_cmd is 1 and the link timeout
\* is the one of the sweep; on every exit of baud_tune attempts_cmd and the
\* link timeout are the ones baud_tune was entered with (of the timeout the
\* kind is compared: the one the port was opened with, or a page timeout).
C22_Claim ==
  /\ pc = "baud_tune_loop"
       => /\ bl.attempts_cmd = 1
          /\ ser.timeout = [kind |-> "tune", baud |-> hist.entry.baud]
  /\ TuneLeft
       => /\ bl.attempts_cmd = hist.entry.attempts_cmd
          /\ ser.timeout.kind = hist.entry.timeout

\* A get_commands result that counts as a success of the tune.
TuneSuccess(cmds) == cmds # <<>> /\ COMMAND_SET \subseteq Range(cmds)

\* C23: for each candidate the sweep makes tune_requests iterations, and the
\* rate is the number of successful ones among all of them (over
\* tune_requests), wherever the failed ones lie.
C23_Claim ==
  /\ call.op = "sync_rate"
       => /\ call.iterations = TuneRequests
          /\ call.result =
               Cardinality({k \in DOMAIN call.bytes : call.bytes[k] \in {ACK, NACK}})
  /\ call.op = "tune_rate"
       => /\ call.iterations = TuneRequests
          /\ call.result =
               Cardinality({k \in DOMAIN call.scripts :
                              TuneSuccess(get_commands(call.scripts[k]))})

\* C24: a call of be_quiet or enter_bootloader, whether it returns or raises
\* (a raise before the frame was sent included), leaves the link with the
\* baud rate and the parity it had before the call.
C24_Claim ==
  [][(pc \in {"mute", "enter"})
       => (ser'.baudrate = ser.baudrate /\ ser'.parity = ser.parity)]_vars

\* C25: a transport error raised inside send, recv, recv_all or reset_input
\* does not leave the operation; it makes at most one reconnect attempt and
\* a receive returns an empty read.
C25_Claim ==
  (call.op \in {"send_data", "recv_data", "recv_all", "reset_input"} /\ call.error)
    => /\ ~call.r.raised
       /\ call.r.reconnects <= 1
       /\ call.op \in {"recv_data", "recv_all"} => call.r.data = <<>>

Statuses == {"Undefined", "Success", "Warning", "Fail"}

\* C26: every target starts Undefined; its status changes at most once, to
\* Success, Warning or Fail, and never changes afterwards.
C26_WrittenOnce ==
  /\ [](/\ \A t \in DOMAIN prog_status : prog_status[t] \in Statuses
        /\ pc = "baudrate_check"
             => \A t \in DOMAIN prog_status : prog_status[t] = "Undefined")
  /\ [][\A t \in DOMAIN prog_status :
          /\ t \in DOMAIN prog_status'
          /\ prog_status[t] # "Undefined" => prog_status'[t] = prog_status[t]]_vars

C26_Witness ==
  /\ Len(args.targets) >= 2
  /\ pc = "for_target"
  /\ tidx > Len(args.targets)
  /\ prog_status[args.targets[1]] = "Warning"
  /\ prog_status[args.targets[2]] = "Fail"

\* The chunk under way in program_hex and its address.
ChunkUnderWay == pc \in {"chunk", "write", "verify"} /\ ph.i < sector_chunks(CurSector)

ChunkAddress == sector_start(CurSector) + ph.i * CHUNK

\* C27: the chunk handled at the address A is data[A - min_addr ..
\* A - min_addr + CHUNK - 1] with non-negative indices: each of its bytes is
\* the image byte of its own address, and a chunk that lies before min_addr
\* holds no byte.
C27_Claim ==
  ChunkUnderWay
    => LET chunk == chunk_of(bl, CurSector, ph.i)
       IN /\ ChunkAddress - bl.min_addr >= 0
          /\ Len(chunk) <= CHUNK
          /\ \A k \in DOMAIN chunk :
               /\ ChunkAddress + k - 1 \in bl.min_addr..bl.max_addr
               /\ chunk[k] = bl.data[ChunkAddress + k - bl.min_addr]
          /\ \A k \in 1..CHUNK :
               ChunkAddress + k - 1 \in bl.min_addr..bl.max_addr => k \in DOMAIN chunk

\* C28: within an erase attempt of a sector a WRITE_MEMORY or READ_MEMORY of
\* that sector is sent only after the EXTENDED_ERASE of that sector was
\* acknowledged in the same attempt; a failed erase is followed by the next
\* erase attempt (or by the end of the attempts) and by nothing else; every
\* erase attempt begins by discarding the pending input.
C28_EraseFirst ==
  /\ hist.step \in {"erase", "write", "read"}
       => /\ Len(hist.attempt) >= 2
          /\ hist.attempt[1][1] = "reset_input"
          /\ hist.attempt[2][1] \in {"erase_ack", "erase_nack"}
          /\ hist.attempt[2][2] = hist.attempt[1][2]
  /\ \A k \in DOMAIN hist.attempt :
       hist.attempt[k][1] \in {"write", "read"}
         => \E j \in 1..(k - 1) : hist.attempt[j] = <<"erase_ack", hist.attempt[k][2]>>
  /\ hist.step \in {"write", "read"}
       => <<hist.step, hist.attempt[1][2]>> \in Range(hist.attempt)
  /\ pc \in {"chunk", "write", "verify"}
       => hist.attempt[2] = <<"erase_ack", CurSector>>
  /\ (Len(hist.attempt) >= 2 /\ hist.attempt[2][1] = "erase_nack")
       => /\ Len(hist.attempt) = 2
          /\ pc \in {"erase", "for_target"}

C28_Witness ==
  /\ pc = "verify"
  /\ ph.erase_attempt > 0
  /\ hist.erase_failed
  /\ hist.attempt = << <<"reset_input", CurSector>>, <<"erase_ack", CurSector>>,
                       <<"write", CurSector>> >>

\* C29: the pending input is discarded after every failed ACK read (before
\* the next bytes are sent) and after each change of the link's baud rate,
\* the per-candidate changes of the sync and tune sweeps included (before
\* the next bytes are read); the drain before each erase attempt is part of
\* C28.
LinkReads == {"recv_all", "recv_data", "ack", "no_ack"}

DrainedBefore(link, k, barred) ==
  \E j \in (k + 1)..Len(link) :
    /\ link[j] = "reset_input"
    /\ \A m \in (k + 1)..(j - 1) : link[m] \notin barred

C29_Claim ==
  call.op \in {"sync_rate", "tune_rate"}
    => \A k \in DOMAIN call.link :
         /\ call.link[k] = "no_ack" => DrainedBefore(call.link, k, {"send_data"})
         /\ call.link[k] = "baudrate" => DrainedBefore(call.link, k, LinkReads)

\* C30: the progress counter the progress bar shows never decreases.
C30_Claim == [][total_n' >= total_n]_vars

DataChunks(sector) ==
  {i \in 0..(sector_chunks(sector) - 1) : ~all_blank(chunk_of(bl, sector, i))}

\* C32: when program_hex returned Success or Warning, every chunk of a used
\* sector that is not all 0xFF was written with an acknowledged WRITE_MEMORY
\* after the last erase of its sector and then read back equal, and the
\* sector was not erased afterwards; in the attempt under way a chunk that
\* is not blank is credited only when it was read back equal.
C32_Verified ==
  /\ hist.proven \subseteq hist.wrote
  /\ Programmed
       => \A k \in DOMAIN bl.used_sectors :
            \A i \in DataChunks(bl.used_sectors[k]) :
              <<bl.used_sectors[k], i>> \in hist.proven
  /\ pc \in {"chunk", "write", "verify"}
       => /\ hist.attempt[2] = <<"erase_ack", CurSector>>
          /\ ph.credited = ph.i
          /\ \A i \in DataChunks(CurSector) :
               i < ph.i <=> <<CurSector, i>> \in hist.proven

C32_Witness ==
  /\ Programmed
  /\ hist.erase_failed
  /\ hist.retried
  /\ Len(bl.used_sectors) = 2
  /\ DataChunks(bl.used_sectors[1]) = {0, 1}
  /\ DataChunks(bl.used_sectors[2]) # {}

\* The session runs on to its end: every call of main returns (the reads of
\* the link have a timeout) and the operator answers the prompt.
SpecSession == Init /\ [][Next]_vars /\ WF_vars(Next)

\* The enter-bootloader frame of the target at position k was just sent: its
\* device is in bootloader mode until a GO is acknowledged.
Entered(k) == tidx = k /\ hist.step = "enter"

\* An EXTENDED_ERASE, a WRITE_MEMORY or a GO was sent for the target after
\* the one at position k, which ended with Fail: no GO was acknowledged since
\* its enter-bootloader frame.
BesideStray(k) ==
  /\ tidx = k + 1
  /\ tidx \in DOMAIN args.targets
  /\ pc \in {"erase", "chunk", "write", "verify", "go"}
  /\ hist.step \in {"erase", "write", "go"}
  /\ prog_status[args.targets[k]] = "Fail"

\* C33: when an EXTENDED_ERASE, a WRITE_MEMORY or a GO is sent for a target,
\* no device of another target is in bootloader mode (a device enters it on
\* its own enter-bootloader frame and leaves it on an acknowledged GO), also
\* after an earlier target failed and the operator chose to continue: once
\* the frame of a target was sent, no such command is sent for the next
\* target while the first one stands at Fail.
C33_Claim == \A k \in 1..MaxTargets : [](Entered(k) => [](~BesideStray(k)))

\* sync or baud_tune has returned or raised and nothing was put on the wire
\* since.
SweepReturned ==
  /\ hist.step \in {"probe", "sync", "tune"}
  /\ ~(pc = "sync" /\ hist.step = "sync")
  /\ pc # "baud_tune_loop"

\* C34: after every return or raise of sync and of baud_tune the baud rate
\* recorded in the engine is the baud rate of the link.
C34_Claim == SweepReturned => bl.baudrate = ser.baudrate

\* ---------------------------------------------------------- termination
\* The steps of program_hex.  Every call it makes returns: the reads of the
\* link have a timeout, the sleeps and the probe are bounded in time.
ProgramStep == EraseAttempt \/ ChunkStep \/ WriteChunk \/ VerifyChunk \/ StartApplication

\* The sessions of one target: program_hex is called once.
InitProgram == Init /\ Len(args.targets) = 1

SpecProgram == InitProgram /\ [][Next]_vars /\ WF_vars(ProgramStep)

InProgram == pc \in {"erase", "chunk", "write", "verify", "go"}

\* program_hex has returned for the target of hist.
Returned == TargetOver /\ prog_status[hist.tid] \in {"Success", "Warning", "Fail"}

\* A step that calls write_mem, one that calls read_mem and one that calls
\* start_application: the steps of their loops other than the else branch.
WriteCalled == pc = "write" /\ pc' \in {"write", "verify"}
ReadCalled == pc = "verify" /\ pc' \in {"verify", "chunk"}
GoCalled == pc = "go" /\ (pc' = "go" \/ prog_status'[hist.tid] # "Fail")

\* C35: program_hex makes at most attempts_erase erase_sector calls for a
\* sector, at most attempts_cmd write_mem calls and as many read_mem calls
\* for a chunk in one erase attempt, at most attempts_cmd start_application
\* calls, and returns Success, Warning or Fail whatever the target answers,
\* also when a budget is 0.
C35_Terminates ==
  /\ [](/\ hist.made.erase <= args.attempts_erase
        /\ hist.made.write <= bl.attempts_cmd
        /\ hist.made.read <= bl.attempts_cmd
        /\ hist.made.go <= bl.attempts_cmd)
  /\ [][(WriteCalled => hist.made.write < bl.attempts_cmd)
        /\ (ReadCalled => hist.made.read < bl.attempts_cmd)
        /\ (GoCalled => hist.made.go < bl.attempts_cmd)]_vars
  /\ InProgram ~> Returned

C35_Witness ==
  /\ Returned
  /\ prog_status[hist.tid] = "Fail"
  /\ hist.erase_failed
  /\ hist.retried
  /\ bl.attempts_cmd >= 2
  /\ hist.made.go = bl.attempts_cmd

====
